---- MODULE Spec2Model ----
(***************************************************************************)
(* A model of the PDF splitter bot of src/app.py: the conversation engine  *)
(* (the ConversationHandler of main() and its handlers), the storage and   *)
(* serve directories, the download-token registry and the Flask file host. *)
(*                                                                         *)
(* Conventions.                                                            *)
(*  - A string the code inspects character by character (a file name, a    *)
(*    range text) is a sequence of one-character strings.                  *)
(*  - An optional value (a key of user_data that may be absent, a header   *)
(*    that may be missing) is a sequence of length 0 or 1.                 *)
(*  - The messaging channel is an external collaborator: a message the     *)
(*    handler sends is recorded in `last`; sends do not fail, except the   *)
(*    progress updates, whose failure the code itself handles.             *)
(*  - A handler runs as one step: the session serialises its events.       *)
(***************************************************************************)
EXTENDS Integers, Sequences, FiniteSets, TLC

VARIABLES
    conv,        \* user -> conversation state (END: no conversation)
    user_data,   \* user -> context.user_data
    buttons,     \* user -> callback_data of every inline button shown so far
    offered,     \* user -> the downloads offered for confirmation so far
    storage,     \* PDF_STORAGE_DIR: file name -> file
    web_serve,   \* WEB_SERVE_DIR: path -> [pages, mtime]
    file_tokens, \* the token registry: token -> entry
    timers,      \* pending threading.Timer removals: set of [token, due]
    now,         \* time.time()
    uuids,       \* number of uuid4() values drawn so far
    PUBLIC_URL,  \* the resolved public base URL
    last,        \* what the last handler run was given and what it sent
    response,    \* the last response of GET /download/<token>
    sweeper,     \* the thread of cleanup_expired_files: its position and locals
    request      \* the thread of a GET /download/<token> in progress

vars == <<conv, user_data, buttons, offered, storage, web_serve, file_tokens, timers,
          now, uuids, PUBLIC_URL, last, response,
          sweeper, request>>

----------------------------------------------------------------------------
(* Bounds of the model *)

\* the longest range text the user types
MaxTextLen == 3
\* the most pages a document of the catalogue has
MaxPages == 3
\* the most uuid4() values drawn in a run (each link delivery draws two)
MaxUuids == 4
\* the number of clock steps of a run
MaxTicks == 3
\* the most files the serve directory holds when the file host runs on its own
MaxServed == 1
\* the most entries the registry holds when the file host runs on its own
MaxTokens == 2
\* the pages of the long document, and the largest iteration or chunk whose
\* progress report is chosen to fail on its own
MaxLongPages == 12
MaxFailing == 2
\* the seconds that may pass in process_page_range between the copy of line
\* 647 and the token of line 651
HandlerSeconds == 2

----------------------------------------------------------------------------
(* Program constants *)

UPLOAD_PDF == 0
GET_URL == 1
CONFIRM_DOWNLOAD == 2
GET_PAGE_RANGE == 3
SELECT_LOCAL_PDF == 4
\* ConversationHandler.END: the conversation is over, no state is kept
END == -1

ConvStates == {UPLOAD_PDF, GET_URL, CONFIRM_DOWNLOAD, GET_PAGE_RANGE, SELECT_LOCAL_PDF}

\* Sizes are counted in KiB: 2 GiB in bytes is past the integers TLC computes with.
MiB == 1024
MAX_FILE_SIZE == 50 * 1024
MAX_DOWNLOAD_SIZE == 2 * 1024 * 1024
FILE_EXPIRATION_TIME == 86400

\* the clock advances in steps of half an expiration window
TickStep == FILE_EXPIRATION_TIME \div 2

----------------------------------------------------------------------------
(* Optional values and strings *)

None == <<>>
Some(v) == <<v>>
IsSome(o) == Len(o) = 1
Get(o) == o[1]

\* str.lower() on the letters the model uses
LowerChar(c) ==
    CASE c = "P" -> "p"
      [] c = "D" -> "d"
      [] c = "F" -> "f"
      [] c = "Y" -> "y"
      [] c = "E" -> "e"
      [] c = "S" -> "s"
      [] OTHER -> c

Lower(s) == [i \in 1..Len(s) |-> LowerChar(s[i])]

\* str.endswith
EndsWith(s, suffix) ==
    /\ Len(s) >= Len(suffix)
    /\ SubSeq(s, Len(s) - Len(suffix) + 1, Len(s)) = suffix

DotPdf == <<".", "p", "d", "f">>

\* os.path.splitext(name)[0]: the name up to its last dot; a name with no dot,
\* or whose only dot leads it, has no extension
SplitExtStem(name) ==
    LET dots == {i \in 2..Len(name) : name[i] = "."}
    IN  IF dots = {} THEN name
        ELSE LET d == CHOOSE i \in dots : \A j \in dots : j <= i
             IN  SubSeq(name, 1, d - 1)

----------------------------------------------------------------------------
(* Documents and files *)

\* A page is identified by a number; DamagedPage is a page whose copy fails.
DamagedPage == MaxPages + 1
\* a page of 1 MiB, for documents of many pages
LightPage == MaxPages + 2
PageIds == (1..MaxPages) \cup {DamagedPage, LightPage}

\* the bytes a page contributes to a written document
PageBytes(p) == IF p = LightPage THEN MiB ELSE IF p = 3 THEN 26 * MiB ELSE 25 * MiB

\* A file is PDF bytes (a sequence of pages) or bytes PdfReader cannot read.
PdfFile(pages) == [pdf |-> TRUE, pages |-> pages]
Garbage == [pdf |-> FALSE, pages |-> <<>>]

RECURSIVE SumBytes(_)
SumBytes(pages) ==
    IF pages = <<>> THEN 0 ELSE PageBytes(Head(pages)) + SumBytes(Tail(pages))

\* os.path.getsize of a file
getsize(file) == SumBytes(file.pages)

\* the documents of the catalogue: pages 1..n in order, and one with a damaged page
Doc(n) == PdfFile([i \in 1..n |-> i])
DamagedDoc == PdfFile(<<1, DamagedPage>>)
LongDoc(n) == PdfFile([i \in 1..n |-> LightPage])
Docs == {Doc(n) : n \in 0..MaxPages} \cup {DamagedDoc}
Files == Docs \cup {Garbage}

\* file names
NameA == <<"a", ".", "p", "d", "f">>
NameB == <<"b", ".", "P", "D", "F">>
NameC == <<"c">>
NameDocument == <<"d", "o", "c", "u", "m", "e", "n", "t", ".", "p", "d", "f">>
NameDownloaded == <<"d", "o", "w", "n", "l", "o", "a", "d", "e", "d", ".", "p", "d", "f">>
\* a name with a directory component
DirNameA == <<"x", "/">> \o NameA
\* f"telegram_{user.id}.pdf"
NameTelegram(u) == <<"t", "g", "_", u, ".", "p", "d", "f">>

\* os.path.basename: what follows the last "/"
basename(path) ==
    LET slashes == {i \in 1..Len(path) : path[i] = "/"}
    IN  IF slashes = {} THEN path
        ELSE LET k == CHOOSE i \in slashes : \A j \in slashes : j <= i
             IN  SubSeq(path, k + 1, Len(path))

----------------------------------------------------------------------------
(* The page range text: lines 533-565 *)

\* the characters of the range texts the model tries
RangeChars == {"0", "1", "2", "3", "-", "x", " "}

AllDigits == {"0", "1", "2", "3", "4", "5", "6", "7", "8", "9"}

DigitVal(c) == CASE c = "0" -> 0 [] c = "1" -> 1 [] c = "2" -> 2 [] c = "3" -> 3
                 [] c = "4" -> 4 [] c = "5" -> 5 [] c = "6" -> 6 [] c = "7" -> 7
                 [] c = "8" -> 8 [] c = "9" -> 9

\* str.strip(): leading and trailing whitespace removed
RECURSIVE LStrip(_)
LStrip(s) == IF s # <<>> /\ Head(s) = " " THEN LStrip(Tail(s)) ELSE s
RECURSIVE RStrip(_)
RStrip(s) ==
    IF s # <<>> /\ s[Len(s)] = " " THEN RStrip(SubSeq(s, 1, Len(s) - 1)) ELSE s
Strip(s) == RStrip(LStrip(s))

\* str.split(sep): the pieces between the separators
RECURSIVE Split(_, _)
Split(s, sep) ==
    LET hits == {i \in 1..Len(s) : s[i] = sep}
    IN  IF hits = {} THEN <<s>>
        ELSE LET i == CHOOSE k \in hits : \A j \in hits : k <= j
             IN  <<SubSeq(s, 1, i - 1)>> \o Split(SubSeq(s, i + 1, Len(s)), sep)

\* int(s) raises ValueError unless s, stripped, is a non-empty run of digits
\* (a sign cannot occur: the text is split at every "-")
IsInt(s) ==
    LET t == Strip(s)
    IN  t # <<>> /\ \A i \in 1..Len(t) : t[i] \in AllDigits

RECURSIVE DecVal(_)
DecVal(t) ==
    IF t = <<>> THEN 0
    ELSE 10 * DecVal(SubSeq(t, 1, Len(t) - 1)) + DigitVal(t[Len(t)])

int(s) == DecVal(Strip(s))

\* lines 544-556: the parse of the range text; ok is FALSE on ValueError
ParseFailure == [ok |-> FALSE, start |-> 0, end |-> 0]
parse_range(text) ==
    IF \E i \in 1..Len(text) : text[i] = "-"
    THEN LET parts == Split(text, "-")
         IN  IF Len(parts) = 2 /\ IsInt(parts[1]) /\ IsInt(parts[2])
             THEN [ok |-> TRUE, start |-> int(parts[1]), end |-> int(parts[2])]
             ELSE ParseFailure
    ELSE IF IsInt(text)
         THEN [ok |-> TRUE, start |-> int(text), end |-> int(text)]
         ELSE ParseFailure

\* (a faulty variant, for comparison) the bounds test without its start > end part
range_rejected_unordered(start_page, end_page, num_pages) ==
    start_page < 1 \/ end_page > num_pages

\* line 560: the bounds test that rejects a range
range_rejected(start_page, end_page, num_pages) ==
    start_page < 1 \/ end_page > num_pages \/ start_page > end_page

----------------------------------------------------------------------------
(* The page copy loop: lines 584-605 *)

\* pdf_reader.pages[page_num] as a 1-based position: a negative index counts
\* from the end, and 0 stands for an index outside the document (IndexError)
page_at(pages, page_num) ==
    LET k == IF page_num < 0 THEN Len(pages) + page_num + 1 ELSE page_num + 1
    IN  IF k \in 1..Len(pages) THEN k ELSE 0

\* line 582: progress_interval = max(1, total_pages // 10)
progress_interval(total_pages) ==
    IF total_pages \div 10 > 1 THEN total_pages \div 10 ELSE 1

\* line 593: the test that makes iteration i (0-based) of the copy loop report
progress_due(i, total_pages) == i % progress_interval(total_pages) = 0 /\ i > 0

\* (a faulty variant, for comparison) a progress update whose failure is not caught
update_progress_unguarded(i, failed) == [i |-> i, sent |-> ~failed, raises |-> failed]

\* lines 595-600 and 318-324: try: edit_text(...) except Exception: log a
\* warning. `failed` says whether edit_text raises; the report is sent or not,
\* and no exception leaves the try.
update_progress(i, failed) == [i |-> i, sent |-> ~failed, raises |-> FALSE]

\* (a faulty variant, for comparison) the loop reading the 1-based page number as the 0-based index
RECURSIVE copy_pages_skewed(_, _, _, _, _)
copy_pages_skewed(pages, page_num, end_page, written, failing) ==
    IF page_num >= end_page
    THEN [ok |-> TRUE, pages |-> written, failed |-> 0, reports |-> <<>>]
    ELSE LET k == page_at(pages, page_num + 1)
         IN  IF k = 0 \/ pages[k] = DamagedPage
             THEN [ok |-> FALSE, pages |-> written, failed |-> page_num + 1, reports |-> <<>>]
             ELSE copy_pages_skewed(pages, page_num + 1, end_page, Append(written, pages[k]),
                                    failing)

\* (a faulty variant, for comparison) the loop leaving out a page that cannot be copied
RECURSIVE copy_pages_skipping(_, _, _, _, _)
copy_pages_skipping(pages, page_num, end_page, written, failing) ==
    IF page_num >= end_page
    THEN [ok |-> TRUE, pages |-> written, failed |-> 0, reports |-> <<>>]
    ELSE LET k == page_at(pages, page_num)
         IN  copy_pages_skipping(pages, page_num + 1, end_page,
                 IF k = 0 \/ pages[k] = DamagedPage THEN written ELSE Append(written, pages[k]),
                 failing)

\* lines 588-605: the copy loop from page_num (0-based) to end_page - 1, with
\* `written` the pages added so far, so that i = Len(written) and total_pages
\* = end_page - (page_num - i). Each iteration adds a page with
\* pdf_writer.add_page(pdf_reader.pages[page_num]) and then, when due, reports
\* progress; `failing` holds the iterations whose report raises. Whatever is
\* raised inside the iteration (an index outside the document, a page that
\* cannot be copied, an exception leaving the report) ends the loop at line
\* 602 with that page as the failed one.
RECURSIVE copy_pages(_, _, _, _, _)
copy_pages(pages, page_num, end_page, written, failing) ==
    IF page_num >= end_page
    THEN [ok |-> TRUE, pages |-> written, failed |-> 0, reports |-> <<>>]
    ELSE LET k == page_at(pages, page_num)
             i == Len(written)
             total_pages == end_page - (page_num - i)
             stopped == [ok |-> FALSE, pages |-> written, failed |-> page_num + 1,
                         reports |-> <<>>]
         IN  IF k = 0 \/ pages[k] = DamagedPage THEN stopped
             ELSE IF ~progress_due(i, total_pages)
             THEN copy_pages(pages, page_num + 1, end_page, Append(written, pages[k]), failing)
             ELSE LET update == update_progress(i, i \in failing)
                  IN  IF update.raises
                      THEN [stopped EXCEPT !.pages = Append(written, pages[k]),
                                           !.reports = <<update>>]
                      ELSE LET rest == copy_pages(pages, page_num + 1, end_page,
                                                  Append(written, pages[k]), failing)
                           IN  [rest EXCEPT !.reports = <<update>> \o @]

\* line 614: f"{stem}_pages_{start}_to_{end}.pdf"
output_filename(input_pdf_path, start_page, end_page) ==
    [stem |-> SplitExtStem(input_pdf_path), from |-> start_page, to |-> end_page]

----------------------------------------------------------------------------
(* The token registry and the file host: lines 76-122 *)

\* the n-th uuid4() value: never one drawn before
uuid4(n) == n + 1

\* (a faulty variant, for comparison) a registry that keeps one token per file: storing a token drops
\* the other tokens of the same file
store_token_per_file(tokens, token, file_path, original_filename, t) ==
    [k \in {j \in DOMAIN tokens : tokens[j].file_path # file_path} \cup {token} |->
        IF k = token
        THEN [file_path |-> file_path, filename |-> original_filename,
              client_ip |-> None, expire_time |-> t + FILE_EXPIRATION_TIME]
        ELSE tokens[k]]

\* lines 112-117: the registry after generate_download_token stores its entry
store_token(tokens, token, file_path, original_filename, t) ==
    [k \in DOMAIN tokens \cup {token} |->
        IF k = token
        THEN [file_path |-> file_path, filename |-> original_filename,
              client_ip |-> None, expire_time |-> t + FILE_EXPIRATION_TIME]
        ELSE tokens[k]]

\* (a faulty variant, for comparison) a timer that removes the entry of another token
token_timer_of_another(token, t) == [token |-> token + 1, due |-> t + FILE_EXPIRATION_TIME]

\* line 120: the timer that removes the token after the expiration time
token_timer(token, t) == [token |-> token, due |-> t + FILE_EXPIRATION_TIME]

\* (a faulty variant, for comparison) the test without its expiry part
token_refused_absent(tokens, token, t) == token \notin DOMAIN tokens

\* line 88: the test that answers 404 for a token
token_refused(tokens, token, t) ==
    token \notin DOMAIN tokens \/ tokens[token].expire_time < t

\* lines 88-93: the registry lookup of download_file; None is NotFound
resolve(tokens, token, t) ==
    IF token_refused(tokens, token, t) THEN None
    ELSE Some([file_path |-> tokens[token].file_path,
               filename |-> tokens[token].filename])

NotFound404 == [status |-> 404, body |-> <<>>, download_name |-> None]

\* lines 86-105: the response of GET /download/<token>
download_response(tokens, served, token, t) ==
    LET found == resolve(tokens, token, t)
    IN  IF ~IsSome(found) THEN NotFound404
        ELSE IF Get(found).file_path \notin DOMAIN served THEN NotFound404
        ELSE [status |-> 200, body |-> served[Get(found).file_path].pages,
              download_name |-> Some(Get(found).filename)]

\* a function without one key: os.remove, dict.pop
Without(f, k) == [x \in DOMAIN f \ {k} |-> f[x]]
\* a function with one key set: a file written, a dict entry stored
With(f, k, v) == [x \in DOMAIN f \cup {k} |-> IF x = k THEN v ELSE f[x]]

----------------------------------------------------------------------------
(* Configuration: lines 61-73 *)

Localhost == [scheme |-> "http", host |-> "localhost"]
Loopback == [scheme |-> "http", host |-> "127.0.0.1"]
Configured == [scheme |-> "https", host |-> "pdf.example.org"]
Detected == [scheme |-> "http", host |-> "203.0.113.7"]

\* the values of the PUBLIC_URL environment variable, and of get_public_ip()
EnvUrls == {None, Some(Localhost), Some(Loopback), Some(Configured)}
PublicIps == {None, Some(Detected)}

\* line 62: startswith(('http://localhost', 'http://127.0.0.1'))
starts_local(url) == url.scheme = "http" /\ url.host \in {"localhost", "127.0.0.1"}

\* lines 61-73: the public base URL the process settles on
resolve_public_url(env, public_ip) ==
    IF ~IsSome(env) \/ starts_local(Get(env))
    THEN IF IsSome(public_ip) THEN Get(public_ip)
         ELSE IF IsSome(env) THEN Get(env) ELSE Localhost
    ELSE Get(env)

\* line 654: f"{PUBLIC_URL}/download/{token}"
download_url(base, token) == [base |-> base, token |-> token]

\* (a faulty variant, for comparison) the test that looks for the name localhost only
is_local_url_by_name(url) == url.base.host = "localhost"

\* line 660: 'localhost' in download_url or '127.0.0.1' in download_url; the
\* scheme, the port, "/download/" and a uuid hold neither, so the host decides
is_local_url(url) == url.base.host \in {"localhost", "127.0.0.1"}

----------------------------------------------------------------------------
(* Sessions *)

Users == {"u1", "u2"}

BlankData == [pdf_path |-> None, num_pages |-> None, pending_range |-> None,
              download_url |-> None, file_name |-> None]

\* callback_data of the inline buttons
Btn(data) == [data |-> data, name |-> <<>>]
SelectBtn(name) == [data |-> "select_pdf", name |-> name]

\* what a handler run leaves for the user to see
Sent(handler, u, notice) ==
    [handler |-> handler, user |-> u, before |-> IF u \in Users THEN conv[u] ELSE END,
     text |-> <<>>, notice |-> notice,
     document |-> None, link |-> None, url |-> None, output |-> None,
     token |-> None, failed_page |-> 0, temp_left |-> FALSE, raised |-> FALSE,
     reports |-> <<>>, stored |-> None]

NoResponse == [token |-> 0, status |-> 0, body |-> <<>>, download_name |-> None]

\* lines 851 and 139: main has run the sweep once, and the Timer of its next
\* run is pending
SweepScheduled == [pc |-> "scheduled", current_time |-> 0, listing |-> {}, file_path |-> None]
\* no request is being handled
NoRequest == [pc |-> "none", token |-> 0, file_path |-> None, original_filename |-> None]

\* The state when the process starts; the storage directory outlives the
\* process, so it may hold files already.
InitWith(stores, envs, ips) ==
    /\ conv = [u \in Users |-> END]
    /\ user_data = [u \in Users |-> BlankData]
    /\ buttons = [u \in Users |-> {}]
    /\ offered = [u \in Users |-> {}]
    /\ storage \in stores
    /\ web_serve = <<>>
    /\ file_tokens = <<>>
    /\ timers = {}
    /\ now = 0
    /\ uuids = 0
    /\ \E env \in envs, ip \in ips : PUBLIC_URL = resolve_public_url(env, ip)
    /\ last = Sent("none", "", "")
    /\ response = NoResponse
    /\ sweeper = SweepScheduled
    /\ request = NoRequest

HostVars == <<web_serve, file_tokens, timers, now, uuids, PUBLIC_URL, response>>

----------------------------------------------------------------------------
(* Handlers of the conversation *)

StartButtons == {Btn("upload"), Btn("url"), Btn("local")}

\* lines 141-163
start(u) ==
    /\ conv' = [conv EXCEPT ![u] = UPLOAD_PDF]
    /\ buttons' = [buttons EXCEPT ![u] = @ \cup StartButtons]
    /\ last' = Sent("start", u, "welcome")
    /\ UNCHANGED <<sweeper, request, offered, user_data, storage, HostVars>>

\* lines 760-765
cancel(u) ==
    /\ conv' = [conv EXCEPT ![u] = END]
    /\ last' = Sent("cancel", u, "cancelled")
    /\ UNCHANGED <<sweeper, request, offered, user_data, buttons, storage, HostVars>>

\* line 173: glob.glob(f"{PDF_STORAGE_DIR}/*.pdf")
glob_pdf(files) == {n \in DOMAIN files : EndsWith(n, DotPdf) /\ n[1] # "."}

\* lines 165-212; at most 10 files are listed, and the model stores fewer
list_local_pdfs(u) ==
    LET pdf_files == glob_pdf(storage)
    IN  /\ IF pdf_files = {}
           THEN /\ conv' = [conv EXCEPT ![u] = UPLOAD_PDF]
                /\ buttons' = [buttons EXCEPT ![u] = @ \cup {Btn("upload"), Btn("url")}]
                /\ last' = Sent("list_local_pdfs", u, "no_stored_pdfs")
           ELSE /\ conv' = [conv EXCEPT ![u] = SELECT_LOCAL_PDF]
                /\ buttons' = [buttons EXCEPT ![u] =
                       @ \cup {SelectBtn(n) : n \in pdf_files} \cup {Btn("back_to_start")}]
                /\ last' = Sent("list_local_pdfs", u, "select_a_pdf")
        /\ UNCHANGED <<sweeper, request, offered, user_data, storage, HostVars>>

\* lines 236-276: the "select_pdf:<name>" button
select_pdf(u, file_name) ==
    IF file_name \notin DOMAIN storage
    THEN /\ conv' = [conv EXCEPT ![u] = UPLOAD_PDF]
         /\ buttons' = [buttons EXCEPT ![u] = @ \cup {Btn("local"), Btn("back_to_start")}]
         /\ last' = Sent("select_pdf", u, "file_no_longer_exists")
         /\ UNCHANGED <<sweeper, request, offered, user_data, storage, HostVars>>
    ELSE IF storage[file_name].pdf
    THEN /\ user_data' = [user_data EXCEPT ![u].pdf_path = Some(file_name),
                                           ![u].num_pages = Some(Len(storage[file_name].pages))]
         /\ conv' = [conv EXCEPT ![u] = GET_PAGE_RANGE]
         /\ last' = Sent("select_pdf", u, "selected_pdf")
         /\ UNCHANGED <<sweeper, request, offered, buttons, storage, HostVars>>
    ELSE \* PdfReader fails: the path stays recorded, the list is shown again
         LET pdf_files == glob_pdf(storage)
         IN  /\ user_data' = [user_data EXCEPT ![u].pdf_path = Some(file_name)]
             /\ IF pdf_files = {}
                THEN /\ conv' = [conv EXCEPT ![u] = UPLOAD_PDF]
                     /\ buttons' = [buttons EXCEPT ![u] = @ \cup {Btn("upload"), Btn("url")}]
                     /\ last' = Sent("select_pdf", u, "no_stored_pdfs")
                ELSE /\ conv' = [conv EXCEPT ![u] = SELECT_LOCAL_PDF]
                     /\ buttons' = [buttons EXCEPT ![u] =
                            @ \cup {SelectBtn(n) : n \in pdf_files} \cup {Btn("back_to_start")}]
                     /\ last' = Sent("select_pdf", u, "select_a_pdf")
             /\ UNCHANGED <<sweeper, request, offered, storage, HostVars>>

----------------------------------------------------------------------------
(* Acquisition by upload: lines 356-421 *)

\* An uploaded document: its file_name (optional), its bytes, and how the
\* transfer from the platform goes: "ok", "get_file_fails" (line 381 raises),
\* "download_fails" (line 389 raises, with or without a partial file written).
Upload(file_name, file, transfer) ==
    [file_name |-> file_name, file |-> file, transfer |-> transfer]

\* (a faulty variant, for comparison) a cleanup that removes nothing
remove_upload_skipped(files, pdf_path) == files

\* lines 416-420: the cleanup after a failure, once pdf_path is assigned
remove_upload(files, pdf_path) == Without(files, pdf_path)

\* lines 356-421
handle_pdf(u, document) ==
    LET file_name == IF IsSome(document.file_name) /\ Get(document.file_name) # <<>>
                     THEN Get(document.file_name) ELSE NameTelegram(u)
        pdf_path == basename(file_name)
    IN  IF getsize(document.file) > MAX_FILE_SIZE
        THEN /\ buttons' = [buttons EXCEPT ![u] = @ \cup {Btn("url"), Btn("upload")}]
             /\ last' = Sent("handle_pdf", u, "file_too_large")
             /\ conv' = [conv EXCEPT ![u] = UPLOAD_PDF]
             /\ UNCHANGED <<sweeper, request, offered, user_data, storage, HostVars>>
        ELSE IF document.transfer = "get_file_fails"
        THEN /\ last' = Sent("handle_pdf", u, "error_processing_pdf")
             /\ conv' = [conv EXCEPT ![u] = UPLOAD_PDF]
             /\ UNCHANGED <<sweeper, request, offered, user_data, buttons, storage, HostVars>>
        ELSE IF document.transfer = "download_fails" \/ pdf_path = <<>>
        THEN \* download_to_drive raises, a partial file written or not; whatever
             \* is at pdf_path is removed
             /\ storage' \in {remove_upload(storage, pdf_path),
                              remove_upload(With(storage, pdf_path, Garbage), pdf_path)}
             /\ last' = Sent("handle_pdf", u, "error_processing_pdf")
             /\ conv' = [conv EXCEPT ![u] = UPLOAD_PDF]
             /\ UNCHANGED <<sweeper, request, offered, user_data, buttons, HostVars>>
        ELSE IF ~document.file.pdf
        THEN \* PdfReader fails after the file is written and the path recorded;
             \* the file is removed
             /\ storage' = remove_upload(With(storage, pdf_path, document.file), pdf_path)
             /\ user_data' = [user_data EXCEPT ![u].pdf_path = Some(pdf_path)]
             /\ last' = Sent("handle_pdf", u, "error_processing_pdf")
             /\ conv' = [conv EXCEPT ![u] = UPLOAD_PDF]
             /\ UNCHANGED <<sweeper, request, offered, buttons, HostVars>>
        ELSE /\ storage' = With(storage, pdf_path, document.file)
             /\ user_data' = [user_data EXCEPT ![u].pdf_path = Some(pdf_path),
                                               ![u].num_pages = Some(Len(document.file.pages))]
             /\ last' = Sent("handle_pdf", u, "pdf_received")
             /\ conv' = [conv EXCEPT ![u] = GET_PAGE_RANGE]
             /\ UNCHANGED <<sweeper, request, offered, buttons, HostVars>>

----------------------------------------------------------------------------
(* Acquisition by URL: lines 423-528 and 277-352 *)

\* str.startswith
StartsWith(s, prefix) == Len(s) >= Len(prefix) /\ SubSeq(s, 1, Len(prefix)) = prefix

Http == <<"h", "t", "t", "p", ":", "/", "/">>
Https == <<"h", "t", "t", "p", "s", ":", "/", "/">>

\* urlparse(url).path of an http(s) URL without query or fragment: what
\* follows the host, from its first "/" on
url_path(url) ==
    LET rest == IF StartsWith(url, Https) THEN SubSeq(url, Len(Https) + 1, Len(url))
                ELSE SubSeq(url, Len(Http) + 1, Len(url))
        slashes == {i \in 1..Len(rest) : rest[i] = "/"}
    IN  IF slashes = {} THEN <<>>
        ELSE LET k == CHOOSE i \in slashes : \A j \in slashes : i <= j
             IN  SubSeq(rest, k, Len(rest))

\* The answer to the HEAD request; "error" is a requests.RequestException.
\* content_type is "" when the header is missing; content_disposition, when
\* present, carries a filename= parameter or none.
HeadResp(status, content_type, content_length, content_disposition) ==
    [status |-> status, content_type |-> content_type,
     content_length |-> content_length, content_disposition |-> content_disposition]
HeadError == HeadResp(0, "error", None, None)

\* lines 506-528
get_filename_from_url(url, content_disposition) ==
    IF IsSome(content_disposition) /\ IsSome(Get(content_disposition).filename)
    THEN Get(Get(content_disposition).filename)
    ELSE LET filename == basename(url_path(url))
         IN  IF filename = <<>> THEN NameDocument
             ELSE IF ~EndsWith(Lower(filename), DotPdf) THEN filename \o DotPdf
             ELSE filename

\* lines 423-504
handle_url(u, text, head) ==
    LET url == Strip(text) IN
    IF ~(StartsWith(url, Http) \/ StartsWith(url, Https))
    THEN /\ last' = Sent("handle_url", u, "not_a_valid_url")
         /\ conv' = [conv EXCEPT ![u] = GET_URL]
         /\ UNCHANGED <<sweeper, request, offered, user_data, buttons, storage, HostVars>>
    ELSE LET refused ==
                 IF head = HeadError THEN "error_accessing_url"
                 ELSE IF head.status # 200 THEN "bad_status"
                 ELSE IF /\ head.content_type # ""
                         /\ head.content_type # "application/pdf"
                         /\ ~EndsWith(Lower(url_path(url)), DotPdf) THEN "not_a_pdf"
                 ELSE IF /\ IsSome(head.content_length)
                         /\ Get(head.content_length) > MAX_DOWNLOAD_SIZE THEN "too_large"
                 ELSE ""
         IN  IF refused # ""
             THEN \* line 439: the URL is recorded before it is checked
                  /\ user_data' = [user_data EXCEPT ![u].download_url = Some(url)]
                  /\ last' = Sent("handle_url", u, refused)
                  /\ conv' = [conv EXCEPT ![u] = GET_URL]
                  /\ UNCHANGED <<sweeper, request, offered, buttons, storage, HostVars>>
             ELSE /\ user_data' = [user_data EXCEPT
                       ![u].download_url = Some(url),
                       ![u].file_name = Some(get_filename_from_url(url, head.content_disposition))]
                  /\ buttons' = [buttons EXCEPT ![u] =
                         @ \cup {Btn("confirm_download"), Btn("cancel_download")}]
                  /\ offered' = [offered EXCEPT ![u] = @ \cup
                         {[url |-> url,
                           file_name |-> get_filename_from_url(url, head.content_disposition)]}]
                  /\ last' = Sent("handle_url", u, "confirm_download")
                  /\ conv' = [conv EXCEPT ![u] = CONFIRM_DOWNLOAD]
                  /\ UNCHANGED <<sweeper, request, storage, HostVars>>

\* The answer to the GET request: "error" (the request or raise_for_status
\* fails before the file is opened), "broken" (the stream fails after the file
\* is opened: what was written stays, unreadable), "ok" (the body arrives).
\* content_length is the Content-Length header of the answer, in KiB, None
\* when the header is missing; pace is the seconds a chunk takes to arrive;
\* failing holds the chunks (counted from 1) after which the progress report
\* raises.
Fetch(kind, body) ==
    [kind |-> kind, body |-> body, content_length |-> None, pace |-> 0, failing |-> {}]

\* an answer that arrives whole and announces its length
Paced(body, pace, failing) ==
    [Fetch("ok", body) EXCEPT !.content_length = Some(getsize(body)), !.pace = pace,
                              !.failing = failing]

\* lines 315-316: the test that makes a chunk report progress. downloaded,
\* last_update_time and total_size are in KiB (the code counts bytes, and
\* compares the fraction of the file received since the last report with
\* 0.05); elapsed is current_time - start_time in seconds, from which line 316
\* takes last_update_time, a count of bytes.
download_due(downloaded, last_update_time, total_size, elapsed) ==
    /\ total_size > 0
    /\ \/ 20 * (downloaded - last_update_time) > total_size
       \/ elapsed - 1024 * last_update_time > 10

\* lines 309-324: the loop over the chunks of 1 MiB of a body of `size` KiB,
\* chunk_no counting them from 1. ok is FALSE when an exception leaves the loop.
RECURSIVE download_chunks(_, _, _, _, _, _)
download_chunks(fetch, size, total_size, downloaded, last_update_time, chunk_no) ==
    LET chunk == IF size - downloaded > MiB THEN MiB ELSE size - downloaded
        now_downloaded == downloaded + chunk
    IN  IF chunk <= 0 THEN [ok |-> TRUE, downloaded |-> downloaded, reports |-> <<>>]
        ELSE IF ~download_due(now_downloaded, last_update_time, total_size,
                              chunk_no * fetch.pace)
        THEN download_chunks(fetch, size, total_size, now_downloaded, last_update_time,
                             chunk_no + 1)
        ELSE LET update == update_progress(chunk_no, chunk_no \in fetch.failing)
             IN  IF update.raises
                 THEN [ok |-> FALSE, downloaded |-> now_downloaded, reports |-> <<update>>]
                 ELSE LET rest == download_chunks(fetch, size, total_size, now_downloaded,
                                                  now_downloaded, chunk_no + 1)
                      IN  [rest EXCEPT !.reports = <<update>> \o @]

\* (a faulty variant, for comparison) a failed download asks for the
\* confirmation again
confirm_download_again(u, fetch) ==
    /\ conv' = [conv EXCEPT ![u] =
           IF IsSome(user_data[u].download_url) /\ fetch.kind = "ok" /\ fetch.body.pdf
           THEN GET_PAGE_RANGE ELSE CONFIRM_DOWNLOAD]
    /\ last' = Sent("confirm_download", u, "")
    /\ UNCHANGED <<sweeper, request, offered, user_data, buttons, storage, HostVars>>

\* lines 277-349: what the "confirm_download" button makes of the session
\* and the storage directory, as one record: state (the handler's return
\* value), data (the user's user_data), files and sent (what the user sees)
download_result(u, fetch) ==
    LET ud == user_data[u]
        filename == IF IsSome(ud.file_name) THEN Get(ud.file_name) ELSE NameDownloaded
        pdf_path == basename(filename)
        \* line 304: total_size = int(response.headers.get('content-length', 0))
        total_size == IF IsSome(fetch.content_length) THEN Get(fetch.content_length) ELSE 0
        transfer == IF fetch.kind = "ok"
                    THEN download_chunks(fetch, getsize(fetch.body), total_size, 0, 0, 1)
                    ELSE [ok |-> FALSE, downloaded |-> 0, reports |-> <<>>]
        \* url: the URL of the GET request; stored: the path written, if any
        asked(notice) == [Sent("confirm_download", u, notice) EXCEPT !.url = ud.download_url]
        said(notice) == [asked(notice) EXCEPT !.reports = transfer.reports,
                                              !.stored = Some(pdf_path)]
        result(state, data, files, sent) ==
            [state |-> state, data |-> data, files |-> files, sent |-> sent]
    IN  IF ~IsSome(ud.download_url)
        THEN result(END, ud, storage, Sent("confirm_download", u, "there_was_an_issue"))
        ELSE IF fetch.kind = "error" \/ pdf_path = <<>>
        THEN result(END, ud, storage, asked("error_downloading"))
        ELSE IF ~transfer.ok \/ ~fetch.body.pdf
        THEN \* the stream or the loop raises, or PdfReader does
             result(END, ud,
                    With(storage, pdf_path, IF ~transfer.ok THEN Garbage ELSE fetch.body),
                    said("error_downloading"))
        ELSE result(GET_PAGE_RANGE,
                    [ud EXCEPT !.num_pages = Some(Len(fetch.body.pages)),
                               !.pdf_path = Some(pdf_path)],
                    With(storage, pdf_path, fetch.body),
                    said("pdf_downloaded"))

\* lines 277-349: the "confirm_download" button
confirm_download(u, fetch) ==
    \E r \in {download_result(u, fetch)} :
        /\ conv' = [conv EXCEPT ![u] = r.state]
        /\ user_data' = [user_data EXCEPT ![u] = r.data]
        /\ storage' = r.files
        /\ last' = r.sent
        /\ UNCHANGED <<sweeper, request, offered, buttons, HostVars>>

\* lines 350-352: the "cancel_download" button ("No, cancel", and "Exit")
cancel_download(u) ==
    /\ conv' = [conv EXCEPT ![u] = END]
    /\ last' = Sent("cancel_download", u, "cancelled")
    /\ UNCHANGED <<sweeper, request, offered, user_data, buttons, storage, HostVars>>

----------------------------------------------------------------------------
(* Range processing, extraction and distribution: lines 530-713 *)

\* What process_page_range makes of the session, the serve directory and the
\* registry, as one record: state (the handler's return value), data (the
\* user's user_data), served, tokens, timers, drawn (uuid4 values drawn),
\* shown (buttons added) and sent (what the user sees).
RangeResult(state, data, sent) ==
    [state |-> state, data |-> data, served |-> web_serve, tokens |-> file_tokens,
     timers |-> timers, drawn |-> uuids, shown |-> {}, sent |-> sent]

\* (a faulty variant, for comparison) the size test with < for <=
fits_inline_strict(output_size) == output_size < MAX_FILE_SIZE

\* line 619: the size test that sends the output inline
fits_inline(output_size) == output_size <= MAX_FILE_SIZE

\* lines 616-699: the distribution of a written output document
distribute(u, data, input_pdf_path, output, start_page, end_page) ==
    LET name == output_filename(input_pdf_path, start_page, end_page)
        menu == {Btn("back_to_start"), SelectBtn(basename(input_pdf_path)),
                 Btn("cancel_download")}
        sent == [Sent("process_page_range", u, "") EXCEPT !.output = Some(output.pages)]
    IN  IF fits_inline(getsize(output))
        THEN [RangeResult(UPLOAD_PDF, data,
                 [sent EXCEPT !.notice = "what_next",
                              !.document = Some([pages |-> output.pages, filename |-> name])])
              EXCEPT !.shown = menu]
        ELSE LET web_serve_path == [uuid |-> uuid4(uuids), name |-> name]
                 token == uuid4(uuids + 1)
                 url == download_url(PUBLIC_URL, token)
                 issued == [RangeResult(UPLOAD_PDF, data, sent) EXCEPT
                     !.served = With(web_serve, web_serve_path,
                                     [pages |-> output.pages, mtime |-> now]),
                     !.tokens = store_token(file_tokens, token, web_serve_path, name, now),
                     !.timers = timers \cup {token_timer(token, now)},
                     !.drawn = uuids + 2]
             IN  IF is_local_url(url)
                 THEN \* lines 660-666: return before the link is sent and the
                      \* temporary file removed
                      [issued EXCEPT !.sent = [sent EXCEPT !.notice = "not_configured",
                                                           !.token = Some(token),
                                                           !.url = Some(url),
                                                           !.temp_left = TRUE]]
                 ELSE [issued EXCEPT !.shown = menu,
                                     !.sent = [sent EXCEPT !.notice = "what_next",
                                                           !.token = Some(token),
                                                           !.url = Some(url),
                                                           !.link = Some(url)]]

\* lines 530-713
range_result(u, text, failing) ==
    LET page_range_text == Strip(text)
        ud == user_data[u]
        confirmed == /\ Lower(page_range_text) = <<"y", "e", "s">>
                     /\ IsSome(ud.pending_range)
        parsed == IF confirmed
                  THEN [ok |-> TRUE, start |-> Get(ud.pending_range)[1],
                        end |-> Get(ud.pending_range)[2]]
                  ELSE parse_range(page_range_text)
        data == IF confirmed THEN [ud EXCEPT !.pending_range = None] ELSE ud
        num_pages == IF IsSome(ud.num_pages) THEN Get(ud.num_pages) ELSE 0
        said(notice) == Sent("process_page_range", u, notice)
    IN  IF ~parsed.ok
        THEN RangeResult(GET_PAGE_RANGE, data, said("invalid_format"))
        ELSE IF ~confirmed /\ range_rejected(parsed.start, parsed.end, num_pages)
        THEN RangeResult(GET_PAGE_RANGE, data, said("invalid_range"))
        ELSE IF ~IsSome(ud.pdf_path)
        THEN \* line 570 raises KeyError: no state is returned
             RangeResult(conv[u], data, [said("") EXCEPT !.raised = TRUE])
        ELSE LET input_pdf_path == Get(ud.pdf_path)
             IN  IF input_pdf_path \notin DOMAIN storage \/ ~storage[input_pdf_path].pdf
                 THEN \* lines 701-713: open or PdfReader fails
                      RangeResult(UPLOAD_PDF, data, said("error_processing"))
                 ELSE LET copy == copy_pages(storage[input_pdf_path].pages,
                                             parsed.start - 1, parsed.end, <<>>, failing)
                      IN  IF ~copy.ok
                          THEN \* lines 602-605
                               RangeResult(GET_PAGE_RANGE, data,
                                   [said("error_processing_page") EXCEPT
                                       !.failed_page = copy.failed, !.temp_left = TRUE,
                                       !.reports = copy.reports])
                          ELSE [distribute(u, data, input_pdf_path, PdfFile(copy.pages),
                                           parsed.start, parsed.end)
                                   EXCEPT !.sent.reports = copy.reports]

\* (the run is bounded: no more than MaxUuids uuid4() values are drawn)
process_page_range(u, text, failing) ==
    \E r \in {range_result(u, text, failing)} :
        /\ r.drawn <= MaxUuids
        /\ conv' = [conv EXCEPT ![u] = r.state]
        /\ user_data' = [user_data EXCEPT ![u] = r.data]
        /\ buttons' = [buttons EXCEPT ![u] = @ \cup r.shown]
        /\ web_serve' = r.served
        /\ file_tokens' = r.tokens
        /\ timers' = r.timers
        /\ uuids' = r.drawn
        /\ last' = [r.sent EXCEPT !.text = text]
        /\ UNCHANGED <<sweeper, request, offered, storage, now, PUBLIC_URL, response>>

----------------------------------------------------------------------------
(* Storage commands: lines 733-758 *)

\* /clear_pdfs confirm; without "confirm" nothing is deleted
clear_stored_pdfs(u, confirm) ==
    LET pdf_files == glob_pdf(storage)
    IN  /\ storage' = IF confirm THEN [n \in DOMAIN storage \ pdf_files |-> storage[n]]
                      ELSE storage
        /\ last' = Sent("clear_stored_pdfs", u,
                        IF ~confirm THEN "confirm_to_delete"
                        ELSE IF pdf_files = {} THEN "nothing_to_delete" ELSE "deleted")
        /\ UNCHANGED <<sweeper, request, offered, conv, user_data, buttons, HostVars>>

----------------------------------------------------------------------------
(* The dispatcher: the ConversationHandler of lines 816-839 *)

\* lines 214-354
button_handler(u, b, fetch) ==
    CASE b.data = "upload" ->
            /\ conv' = [conv EXCEPT ![u] = UPLOAD_PDF]
            /\ last' = Sent("button_handler", u, "please_upload")
            /\ UNCHANGED <<sweeper, request, offered, user_data, buttons, storage, HostVars>>
      [] b.data = "url" ->
            /\ conv' = [conv EXCEPT ![u] = GET_URL]
            /\ last' = Sent("button_handler", u, "please_send_link")
            /\ UNCHANGED <<sweeper, request, offered, user_data, buttons, storage, HostVars>>
      [] b.data = "local" -> list_local_pdfs(u)
      [] b.data = "back_to_start" -> start(u)
      [] b.data = "select_pdf" -> select_pdf(u, b.name)
      [] b.data = "confirm_download" -> confirm_download(u, fetch)
      [] b.data = "cancel_download" -> cancel_download(u)
      [] OTHER ->
            /\ conv' = [conv EXCEPT ![u] = UPLOAD_PDF]
            /\ last' = Sent("button_handler", u, "")
            /\ UNCHANGED <<sweeper, request, offered, user_data, buttons, storage, HostVars>>

\* an update no handler of the current state matches
ignored(u) ==
    /\ last' = Sent("ignored", u, "")
    /\ UNCHANGED <<sweeper, request, offered, conv, user_data, buttons, storage, HostVars>>

\* /start: an entry point, and allow_reentry=True
CmdStart(u) == start(u)

\* (a faulty variant, for comparison) /cancel handled in the first state only
CmdCancel_in_upload_only(u) == IF conv[u] = UPLOAD_PDF THEN cancel(u) ELSE ignored(u)

\* /cancel: the fallback of every state of a running conversation
CmdCancel(u) == IF conv[u] # END THEN cancel(u) ELSE ignored(u)

\* (a faulty variant, for comparison) button presses handled in every state
PressButton_in_every_state(u, b, fetch) ==
    /\ b \in buttons[u]
    /\ button_handler(u, b, fetch)

\* a press of an inline button of some message sent earlier; `fetch` is how
\* the GET request goes if the press starts a download
PressButton(u, b, fetch) ==
    /\ b \in buttons[u]
    /\ IF conv[u] \in {UPLOAD_PDF, CONFIRM_DOWNLOAD, SELECT_LOCAL_PDF}
       THEN button_handler(u, b, fetch) ELSE ignored(u)

\* a document message; filters.Document.PDF looks at the mime type
SendDocument(u, document, is_pdf) ==
    IF conv[u] = UPLOAD_PDF /\ is_pdf THEN handle_pdf(u, document) ELSE ignored(u)

\* a text message that is no command
SendUrl(u, text, head) ==
    /\ conv[u] = GET_URL
    /\ handle_url(u, text, head)

\* `failing`: the iterations of the copy loop whose progress report fails
SendRange(u, text, failing) ==
    /\ conv[u] = GET_PAGE_RANGE
    /\ process_page_range(u, text, failing)

SendText(u, text) ==
    /\ conv[u] \notin {GET_URL, GET_PAGE_RANGE}
    /\ ignored(u)

\* /clear_pdfs, outside the conversation handler
CmdClearPdfs(u, confirm) == clear_stored_pdfs(u, confirm)

----------------------------------------------------------------------------
(* The file host, the timers and the sweep *)

\* lines 85-105: GET /download/<token>
download_file(token) ==
    /\ response' = [token |-> token] @@
                   download_response(file_tokens, web_serve, token, now)
    /\ UNCHANGED <<sweeper, request, offered, conv, user_data, buttons, storage, web_serve, file_tokens, timers,
                   now, uuids, PUBLIC_URL, last>>

\* line 120: a timer fires, not before it is due: file_tokens.pop(token, None)
timer_fires(tm) ==
    /\ tm \in timers
    /\ now >= tm.due
    /\ file_tokens' = Without(file_tokens, tm.token)
    /\ timers' = timers \ {tm}
    /\ UNCHANGED <<sweeper, request, offered, conv, user_data, buttons, storage, web_serve, now, uuids,
                   PUBLIC_URL, last, response>>

\* (a faulty variant, for comparison) a sweep that deletes a file as old as the window
sweep_deletes_at_window(file, current_time) ==
    file.mtime + FILE_EXPIRATION_TIME <= current_time

\* line 131: the test that makes the sweep delete a file
sweep_deletes(file, current_time) == file.mtime + FILE_EXPIRATION_TIME < current_time

\* lines 124-139: one run of the sweep
cleanup_expired_files ==
    /\ web_serve' = [path \in {q \in DOMAIN web_serve : ~sweep_deletes(web_serve[q], now)}
                        |-> web_serve[path]]
    /\ UNCHANGED <<sweeper, request, offered, conv, user_data, buttons, storage, file_tokens, timers, now, uuids,
                   PUBLIC_URL, last, response>>

\* line 126-127: the Timer of line 139 runs cleanup_expired_files, which takes
\* the time and lists the serve directory
sweep_starts ==
    /\ sweeper.pc = "scheduled"
    /\ sweeper' = [pc |-> "listed", current_time |-> now, listing |-> DOMAIN web_serve,
                   file_path |-> None]
    /\ UNCHANGED <<conv, user_data, buttons, offered, storage, web_serve, file_tokens,
                   timers, now, uuids, PUBLIC_URL, last, response, request>>

\* lines 127-139, one system call at a time. "listed": the loop takes the
\* next name of the listing and asks os.path.isfile, or, the listing done,
\* starts the Timer of the next run. "isfile": os.path.getmtime, outside any
\* try, raises FileNotFoundError when the file is gone, and the exception
\* leaves cleanup_expired_files before line 139: no next run is scheduled.
\* "remove": os.remove inside try/except Exception.
sweep_step ==
    /\ sweeper.pc \in {"listed", "isfile", "remove"}
    /\ UNCHANGED <<conv, user_data, buttons, offered, storage, file_tokens, timers, now,
                   uuids, PUBLIC_URL, last, response, request>>
    /\ IF sweeper.pc = "listed"
       THEN /\ web_serve' = web_serve
            /\ IF sweeper.listing = {}
               THEN sweeper' = SweepScheduled
               ELSE \E p \in sweeper.listing :
                        sweeper' = IF p \in DOMAIN web_serve
                                   THEN [sweeper EXCEPT !.pc = "isfile", !.file_path = Some(p),
                                                        !.listing = @ \ {p}]
                                   ELSE [sweeper EXCEPT !.listing = @ \ {p}]
       ELSE LET p == Get(sweeper.file_path)
                next == [sweeper EXCEPT !.pc = "listed", !.file_path = None]
            IN  IF sweeper.pc = "isfile"
                THEN /\ web_serve' = web_serve
                     /\ sweeper' = IF p \notin DOMAIN web_serve
                                   THEN [sweeper EXCEPT !.pc = "failed"]
                                   ELSE IF sweep_deletes(web_serve[p], sweeper.current_time)
                                   THEN [sweeper EXCEPT !.pc = "remove"]
                                   ELSE next
                ELSE /\ web_serve' = Without(web_serve, p)
                     /\ sweeper' = next

\* a file of the serve directory is deleted by something other than the sweep
serve_file_vanishes(p) ==
    /\ p \in DOMAIN web_serve
    /\ web_serve' = Without(web_serve, p)
    /\ UNCHANGED <<conv, user_data, buttons, offered, storage, file_tokens, timers, now,
                   uuids, PUBLIC_URL, last, response, sweeper, request>>

\* line 86: Flask hands GET /download/<token> to a thread
request_arrives(token) ==
    /\ request.pc = "none"
    /\ request' = [NoRequest EXCEPT !.pc = "in", !.token = token]
    /\ UNCHANGED <<conv, user_data, buttons, offered, storage, web_serve, file_tokens,
                   timers, now, uuids, PUBLIC_URL, last, response, sweeper>>

\* an exception that leaves download_file: Flask answers 500
ServerError500 == [status |-> 500, body |-> <<>>, download_name |-> None]

\* lines 88-105, one read of the shared registry or of the directory at a
\* time. "in": token not in file_tokens. "expiry": file_tokens[token]
\* ['expire_time'] < time.time(). "path" and "name": lines 92 and 93. Each
\* subscript raises KeyError when the entry is gone. "exists": line 95.
\* "send": send_file opens the file, and fails when it is gone.
request_step ==
    /\ request.pc # "none"
    /\ UNCHANGED <<conv, user_data, buttons, offered, storage, web_serve, file_tokens,
                   timers, now, uuids, PUBLIC_URL, last, sweeper>>
    /\ LET token == request.token
           present == token \in DOMAIN file_tokens
           answer(r) == /\ response' = [token |-> token] @@ r
                        /\ request' = NoRequest
           goes(pc) == /\ response' = response
                       /\ request' = [request EXCEPT !.pc = pc]
       IN  CASE request.pc = "in" ->
                  IF ~present THEN answer(NotFound404) ELSE goes("expiry")
             [] request.pc = "expiry" ->
                  IF ~present THEN answer(ServerError500)
                  ELSE IF file_tokens[token].expire_time < now THEN answer(NotFound404)
                  ELSE goes("path")
             [] request.pc = "path" ->
                  IF ~present THEN answer(ServerError500)
                  ELSE /\ response' = response
                       /\ request' = [request EXCEPT !.pc = "name",
                              !.file_path = Some(file_tokens[token].file_path)]
             [] request.pc = "name" ->
                  IF ~present THEN answer(ServerError500)
                  ELSE /\ response' = response
                       /\ request' = [request EXCEPT !.pc = "exists",
                              !.original_filename = Some(file_tokens[token].filename)]
             [] request.pc = "exists" ->
                  IF Get(request.file_path) \notin DOMAIN web_serve THEN answer(NotFound404)
                  ELSE goes("send")
             [] request.pc = "send" ->
                  IF Get(request.file_path) \notin DOMAIN web_serve
                  THEN answer(ServerError500)
                  ELSE answer([status |-> 200,
                               body |-> web_serve[Get(request.file_path)].pages,
                               download_name |-> request.original_filename])

\* time passes
Tick ==
    /\ now < MaxTicks * TickStep
    /\ now' = now + TickStep
    /\ UNCHANGED <<sweeper, request, offered, conv, user_data, buttons, storage, web_serve, file_tokens, timers,
                   uuids, PUBLIC_URL, last, response>>

\* time passes, by d seconds
Pass(d) ==
    /\ now + d <= MaxTicks * TickStep
    /\ now' = now + d
    /\ UNCHANGED <<conv, user_data, buttons, offered, storage, web_serve, file_tokens,
                   timers, uuids, PUBLIC_URL, last, response, sweeper, request>>

\* lines 641-647 on their own: an output document copied into the serve
\* directory under a name made unique by a uuid
copy_to_serve(output_name, pages) ==
    /\ uuids < MaxUuids
    /\ web_serve' = With(web_serve, [uuid |-> uuid4(uuids), name |-> output_name],
                         [pages |-> pages, mtime |-> now])
    /\ uuids' = uuids + 1
    /\ UNCHANGED <<sweeper, request, offered, conv, user_data, buttons, storage, file_tokens, timers, now,
                   PUBLIC_URL, last, response>>

\* lines 107-122 on their own: a token generated for a path
generate_download_token(file_path, original_filename) ==
    /\ uuids < MaxUuids
    /\ LET token == uuid4(uuids)
       IN  /\ file_tokens' = store_token(file_tokens, token, file_path, original_filename, now)
           /\ timers' = timers \cup {token_timer(token, now)}
    /\ uuids' = uuids + 1
    /\ UNCHANGED <<sweeper, request, offered, conv, user_data, buttons, storage, web_serve, now, PUBLIC_URL, last,
                   response>>

----------------------------------------------------------------------------
(* Inputs *)

\* every text over RangeChars of at most MaxTextLen characters
RangeTexts == UNION {[1..n -> RangeChars] : n \in 1..MaxTextLen}

UrlA == Https \o <<"h", "/">> \o NameA
UrlC == Https \o <<"h", "/">> \o NameC
UrlBare == Http \o <<"h">>
UrlFtp == <<"f", "t", "p", ":", "/", "/", "h">>

Range(a, b) == <<a, "-", b>>

\* the texts of the engine's runs
EngineRanges == {<<"1">>, Range("1", "2"), Range("2", "3"), Range("3", "1"), <<"x">>}
EngineUrls == {UrlA, UrlFtp}

\* the answers to HEAD of the engine's runs
EngineHeads ==
    {HeadError,
     HeadResp(200, "application/pdf", Some(MiB), None),
     HeadResp(404, "", None, None)}

\* the answers to GET of the engine's runs
EngineFetches ==
    {Fetch("error", Garbage), Fetch("broken", Garbage), Fetch("ok", Garbage),
     Fetch("ok", Doc(MaxPages))}

\* the documents the user uploads in the engine's runs
EngineUploads ==
    {Upload(Some(NameA), f, t) : f \in {Doc(2), Doc(MaxPages), Garbage},
                                 t \in {"ok", "get_file_fails", "download_fails"}}

\* the progress reports that fail in the engine's runs: none, or the first
EngineFailing == {{}, {1}}

\* the public base URLs the engine's runs start with
EngineEnvs == {None, Some(Loopback), Some(Configured)}

----------------------------------------------------------------------------
(* The conversation engine, one user *)

Init == InitWith({<<>>}, EngineEnvs, {None})

Engine(u) ==
    \/ CmdStart(u)
    \/ CmdCancel(u)
    \/ \E b \in buttons[u], fetch \in EngineFetches : PressButton(u, b, fetch)
    \/ \E d \in EngineUploads, is_pdf \in BOOLEAN : SendDocument(u, d, is_pdf)
    \/ \E text \in EngineUrls \cup {<<"1">>}, head \in EngineHeads : SendUrl(u, text, head)
    \/ \E text \in EngineRanges \cup {UrlA}, failing \in EngineFailing :
           SendRange(u, text, failing)
    \/ \E text \in {<<"1">>} : SendText(u, text)
    \/ \E confirm \in BOOLEAN : CmdClearPdfs(u, confirm)

Next == Engine("u1")

Spec == Init /\ [][Next]_vars

----------------------------------------------------------------------------
(* Range processing over every range text, on documents found in storage *)

\* the storage directory holds one file when the process starts
RangeStores == {With(<<>>, NameA, f) : f \in Files}

InitRange == InitWith(RangeStores, {None, Some(Configured)}, {None})

NextRange ==
    \/ CmdStart("u1")
    \/ \E b \in buttons["u1"] : PressButton("u1", b, Fetch("error", Garbage))
    \/ \E text \in RangeTexts : SendRange("u1", text, {})

SpecRange == InitRange /\ [][NextRange]_vars

----------------------------------------------------------------------------
(* The token registry and the file host on their own *)

HostNames == {output_filename(NameA, 1, 1), output_filename(NameA, 2, 3)}
HostPages == {<<2, 3>>}
\* a path of the serve directory where no file is
MissingPath == [uuid |-> 0, name |-> output_filename(NameA, 1, 1)]
\* the tokens a client asks for: those issued, and one that never is
AskedTokens == 1..(MaxUuids + 1)

InitHost == InitWith({<<>>}, {Some(Configured)}, {None})

NextHost ==
    \/ \E n \in HostNames, pages \in HostPages :
           /\ Cardinality(DOMAIN web_serve) < MaxServed
           /\ copy_to_serve(n, pages)
    \/ \E path \in DOMAIN web_serve \cup {MissingPath}, n \in HostNames :
           /\ Cardinality(DOMAIN file_tokens) < MaxTokens
           /\ generate_download_token(path, n)
    \/ \E token \in AskedTokens : download_file(token)
    \/ \E tm \in timers : timer_fires(tm)
    \/ cleanup_expired_files
    \/ Tick

SpecHost == InitHost /\ [][NextHost]_vars

----------------------------------------------------------------------------
(* The timers of the registry, run fairly *)

\* some pending threading.Timer runs its removal
TimersRun == \E tm \in timers : timer_fires(tm)

NextTimers ==
    \/ \E n \in HostNames, pages \in HostPages :
           /\ Cardinality(DOMAIN web_serve) < MaxServed
           /\ copy_to_serve(n, pages)
    \/ \E path \in DOMAIN web_serve \cup {MissingPath}, n \in HostNames :
           \* (the run is bounded: a token is issued while its deadline is
           \* within the run's clock)
           /\ now + FILE_EXPIRATION_TIME <= MaxTicks * TickStep
           /\ Cardinality(DOMAIN file_tokens) < MaxTokens
           /\ generate_download_token(path, n)
    \/ \E token \in AskedTokens : download_file(token)
    \/ TimersRun
    \/ Tick

\* the clock advances, and a threading.Timer that is due runs
SpecTimers == InitHost /\ [][NextTimers]_vars /\ WF_vars(Tick) /\ WF_vars(TimersRun)

----------------------------------------------------------------------------
(* The sweep among changes of the serve directory *)

NextSweep ==
    \/ \E n \in HostNames, pages \in HostPages :
           /\ Cardinality(DOMAIN web_serve) < MaxServed + 1
           /\ copy_to_serve(n, pages)
    \/ \E p \in DOMAIN web_serve : serve_file_vanishes(p)
    \/ sweep_starts
    \/ sweep_step
    \/ Tick

SpecSweep == InitHost /\ [][NextSweep]_vars

----------------------------------------------------------------------------
(* A download request among the timers and the sweep *)

NextRequest ==
    \/ \E n \in HostNames, pages \in HostPages :
           /\ Cardinality(DOMAIN web_serve) < MaxServed
           /\ copy_to_serve(n, pages)
    \/ \E path \in DOMAIN web_serve, n \in HostNames :
           /\ Cardinality(DOMAIN file_tokens) < MaxTokens - 1
           /\ generate_download_token(path, n)
    \/ \E token \in AskedTokens : request_arrives(token)
    \/ request_step
    \/ TimersRun
    \/ sweep_starts
    \/ sweep_step
    \/ \* (a request takes none of the clock's steps)
       /\ request.pc = "none"
       /\ Tick

SpecRequest == InitHost /\ [][NextRequest]_vars

----------------------------------------------------------------------------
(* The link branch of an extraction, on a clock of seconds *)

\* The copy of lines 645-647 gives the served file its mtime; the token of
\* line 651 takes time.time() afterwards, in the same run of the handler:
\* the token is issued for the file just copied, under its output name, no
\* more than HandlerSeconds later. The sweep runs at any time.
NextLink ==
    \/ \E n \in HostNames, pages \in HostPages :
           /\ Cardinality(DOMAIN web_serve) < MaxServed
           /\ copy_to_serve(n, pages)
    \/ \E path \in DOMAIN web_serve :
           /\ now - web_serve[path].mtime <= HandlerSeconds
           /\ \A token \in DOMAIN file_tokens : file_tokens[token].file_path # path
           /\ generate_download_token(path, path.name)
    \/ /\ \E path \in DOMAIN web_serve : now - web_serve[path].mtime < HandlerSeconds
       /\ Pass(1)
    \/ Pass(FILE_EXPIRATION_TIME - 1)
    \/ TimersRun
    \/ cleanup_expired_files

SpecLink == InitHost /\ [][NextLink]_vars

----------------------------------------------------------------------------
(* URL validation over more URLs and more answers to HEAD *)

NameReportUpper == <<"r", ".", "P", "D", "F">>
NameText == <<"r", ".", "t", "x", "t">>

\* a URL whose path ends in ".PDF", one with a directory path, one with blanks
\* around it
UrlUpper == Https \o <<"h", "/">> \o NameB
UrlDir == Https \o <<"h", "/", "d", "/">>
UrlTexts == {UrlA, UrlC, UrlUpper, UrlBare, UrlDir, UrlFtp, <<" ">> \o UrlC \o <<" ">>}

\* the Content-Disposition headers: none, one without filename=, and some
\* with a filename= value
Dispositions ==
    {None, Some([filename |-> None])}
        \cup {Some([filename |-> Some(n)]) : n \in {NameReportUpper, NameText}}

UrlHeads ==
    {HeadError, HeadResp(404, "application/pdf", None, None)}
        \cup {HeadResp(200, ct, None, cd) :
                 ct \in {"", "application/pdf", "text/html"}, cd \in Dispositions}
        \cup {HeadResp(200, "application/pdf", Some(n), None) :
                 n \in {0, MAX_DOWNLOAD_SIZE, MAX_DOWNLOAD_SIZE + 1}}

InitUrl == InitWith({<<>>}, {Some(Configured)}, {None})

NextUrl ==
    \/ CmdStart("u1")
    \/ CmdCancel("u1")
    \/ \E b \in buttons["u1"] : PressButton("u1", b, Fetch("error", Garbage))
    \/ \* (the run is bounded: URLs are sent until one is offered for confirmation)
       /\ offered["u1"] = {}
       /\ \E text \in UrlTexts, head \in UrlHeads : SendUrl("u1", text, head)

SpecUrl == InitUrl /\ [][NextUrl]_vars

----------------------------------------------------------------------------
(* Confirmation of a download, over two URLs *)

NextConfirm ==
    \/ CmdStart("u1")
    \/ \E b \in buttons["u1"], fetch \in {Fetch("error", Garbage), Fetch("ok", Doc(1))} :
           PressButton("u1", b, fetch)
    \/ \E text \in {UrlA, UrlC},
          head \in {HeadResp(200, "application/pdf", None, None),
                    HeadResp(404, "", None, None)} :
           SendUrl("u1", text, head)

SpecConfirm == Init /\ [][NextConfirm]_vars

----------------------------------------------------------------------------
(* Progress reports, over a document of many pages *)

DigitChars == <<"0", "1", "2", "3", "4", "5", "6", "7", "8", "9">>

\* a number below 100 as the user types it
DecText(n) ==
    IF n < 10 THEN <<DigitChars[n + 1]>>
    ELSE <<DigitChars[(n \div 10) + 1], DigitChars[(n % 10) + 1]>>

\* every range start-end inside the long document
ProgressRanges ==
    UNION {{DecText(first) \o <<"-">> \o DecText(final) : final \in first..MaxLongPages} :
              first \in 1..MaxLongPages}

\* the progress reports that fail: every choice among the first MaxFailing, or all
ProgressFailing == (SUBSET (1..MaxFailing)) \cup {1..(25 * MaxLongPages)}

\* the bodies that arrive, fast or at 11 s a chunk
ProgressFetches ==
    {Paced(body, pace, failing) :
        body \in {Doc(1), LongDoc(MaxLongPages - 1)}, pace \in {0, 11},
        failing \in ProgressFailing}

ProgressStores == {With(<<>>, NameA, LongDoc(MaxLongPages))}

InitProgress == InitWith(ProgressStores, {None}, {None})

NextProgress ==
    \/ CmdStart("u1")
    \/ \E b \in buttons["u1"], fetch \in ProgressFetches : PressButton("u1", b, fetch)
    \/ \E head \in {HeadResp(200, "application/pdf", None, None)} : SendUrl("u1", UrlA, head)
    \/ \E text \in ProgressRanges, failing \in ProgressFailing : SendRange("u1", text, failing)

SpecProgress == InitProgress /\ [][NextProgress]_vars

----------------------------------------------------------------------------
(* Claims about range processing *)

\* a step in which process_page_range handles a text of user u in
\* AwaitingPageRange; every handler records itself in last
RangeStep(u) ==
    /\ conv[u] = GET_PAGE_RANGE
    /\ last'.user = u
    /\ last'.handler = "process_page_range"
    /\ last'.before = GET_PAGE_RANGE

\* a number as the user writes it: digits, blanks around them allowed
IsNumber(s) == LET t == Strip(s) IN t # <<>> /\ \A i \in 1..Len(t) : t[i] \in AllDigits
NumberOf(s) == DecVal(Strip(s))

\* the position of the hyphen of a text of the form number-number, else 0
HyphenOf(text) ==
    LET at == {i \in 1..Len(text) : /\ text[i] = "-"
                                     /\ IsNumber(SubSeq(text, 1, i - 1))
                                     /\ IsNumber(SubSeq(text, i + 1, Len(text)))}
    IN  IF at = {} THEN 0 ELSE CHOOSE i \in at : TRUE

\* the text is a single integer or start-end of two integers
WellFormed(text) == IsNumber(text) \/ HyphenOf(text) # 0
StartOf(text) ==
    IF IsNumber(text) THEN NumberOf(text) ELSE NumberOf(SubSeq(text, 1, HyphenOf(text) - 1))
EndOf(text) ==
    IF IsNumber(text) THEN NumberOf(text)
    ELSE NumberOf(SubSeq(text, HyphenOf(text) + 1, Len(text)))

\* the page count recorded on the session
PageCount(u) == IF IsSome(user_data[u].num_pages) THEN Get(user_data[u].num_pages) ELSE 0

\* the range text does not parse, or its bounds are out of order or out of the document
InvalidRange(text, page_count) ==
    \/ ~WellFormed(text)
    \/ StartOf(text) > EndOf(text)
    \/ StartOf(text) < 1
    \/ EndOf(text) > page_count

\* C1: in AwaitingPageRange, a range text that does not parse, or whose bounds
\* have start > end, start < 1 or end > page_count, is rejected: the session
\* stays in AwaitingPageRange, no extraction runs (no output is written, no
\* temporary file is left), nothing is delivered and no token is issued.
C1_InvalidRangeRejected ==
    [][\A u \in Users :
        (RangeStep(u) /\ InvalidRange(last'.text, PageCount(u))) =>
            /\ conv'[u] = GET_PAGE_RANGE
            /\ last'.notice \in {"invalid_format", "invalid_range"}
            /\ last'.output = None /\ ~last'.temp_left
            /\ last'.document = None /\ last'.link = None /\ last'.token = None
            /\ file_tokens' = file_tokens /\ web_serve' = web_serve /\ timers' = timers
      ]_vars

\* C1 witness: a parsed range with start > end on a document was just rejected
C1_Witness ==
    /\ last.handler = "process_page_range"
    /\ last.notice = "invalid_range"
    /\ HyphenOf(last.text) # 0
    /\ StartOf(last.text) > EndOf(last.text)
    /\ StartOf(last.text) >= 1 /\ EndOf(last.text) <= PageCount(last.user)
    /\ conv[last.user] = GET_PAGE_RANGE

\* C2: for a source document and a range with 1 <= start <= end <= page_count,
\* the output of a successful extraction has end - start + 1 pages, output page
\* i (0-based) is source page start - 1 + i, and what is delivered is that output.
C2_ExtractedPages ==
    [][\A u \in Users :
        (RangeStep(u) /\ IsSome(last'.output)) =>
            LET source == storage[Get(user_data[u].pdf_path)].pages
                out == Get(last'.output)
                first == StartOf(last'.text)
                final == EndOf(last'.text)
            IN  /\ WellFormed(last'.text)
                /\ (1 <= first /\ first <= final /\ final <= Len(source)) =>
                      /\ Len(out) = final - first + 1
                      /\ \A i \in 0..(Len(out) - 1) : out[i + 1] = source[first + i]
                /\ IsSome(last'.document) => Get(last'.document).pages = out
      ]_vars

\* C2 witness: an extraction of more than one page, not from the first page on
C2_Witness ==
    /\ last.handler = "process_page_range"
    /\ IsSome(last.output)
    /\ Len(Get(last.output)) >= 2
    /\ StartOf(last.text) >= 2

----------------------------------------------------------------------------
(* Claims about the token registry and the file host *)

\* the paths and names tokens are issued for
IssuedPaths == DOMAIN web_serve \cup {MissingPath}

\* the instants of the clock, and one step beyond
Instants == {k * TickStep : k \in 0..(MaxTicks + 1)}

\* C3: the token returned by issue(f, name) resolves to exactly (f, name)
\* immediately after issuance, and at every time after the expiration window
\* has elapsed it resolves to NotFound, by the entry just stored and by every
\* entry the registry holds later.
C3_TokenRoundTrip ==
    [][/\ \A f \in IssuedPaths, n \in HostNames :
            generate_download_token(f, n) =>
                /\ resolve(file_tokens', uuid4(uuids), now')
                       = Some([file_path |-> f, filename |-> n])
                /\ \A t \in Instants :
                       t > now + FILE_EXPIRATION_TIME =>
                           resolve(file_tokens', uuid4(uuids), t) = None
       /\ \A tm \in timers' :
            now' > tm.due =>
                /\ resolve(file_tokens', tm.token, now') = None
                /\ download_response(file_tokens', web_serve', tm.token, now') = NotFound404
      ]_vars

\* C3 witness: a token still in the registry was asked for after its window
\* had elapsed, and the answer was 404
C3_Witness ==
    \E tm \in timers :
        /\ tm.token \in DOMAIN file_tokens
        /\ now > tm.due
        /\ response.token = tm.token
        /\ response.status = 404

\* the token is valid: present, not expired, its file on disk
TokenValid(token) ==
    /\ token \in DOMAIN file_tokens
    /\ now < file_tokens[token].expire_time
    /\ file_tokens[token].file_path \in DOMAIN web_serve

\* C4: GET /download/{token} answers 404 for a token not in the registry, for
\* an expired token and for a valid token whose file is gone; it serves the
\* file's content under the original filename only for a token that is
\* present, unexpired and whose file exists.
C4_DownloadAnswers ==
    [][\A token \in AskedTokens :
        download_file(token) =>
            IF TokenValid(token)
            THEN /\ response'.status = 200
                 /\ response'.body = web_serve[file_tokens[token].file_path].pages
                 /\ response'.download_name = Some(file_tokens[token].filename)
            ELSE response'.status = 404 /\ response'.body = <<>>
      ]_vars

\* C4 away from the expiry instant: the answers of download_file when no token
\* is asked for at exactly its expire_time
C4_AwayFromExpiry ==
    [][\A token \in AskedTokens :
        (/\ download_file(token)
         /\ token \in DOMAIN file_tokens => now # file_tokens[token].expire_time) =>
            IF TokenValid(token)
            THEN /\ response'.status = 200
                 /\ response'.body = web_serve[file_tokens[token].file_path].pages
                 /\ response'.download_name = Some(file_tokens[token].filename)
            ELSE response'.status = 404 /\ response'.body = <<>>
      ]_vars

\* C5: a lookup at a time now >= expire_time, now = expire_time included,
\* answers 404 and the file is not served.
C5_NeverAtOrAfterExpiry ==
    [][\A token \in AskedTokens :
        (/\ download_file(token)
         /\ token \in DOMAIN file_tokens
         /\ now >= file_tokens[token].expire_time) =>
            response'.status = 404 /\ response'.body = <<>>
      ]_vars

\* C5 strictly after the expiry instant
C5_AfterExpiry ==
    [][\A token \in AskedTokens :
        (/\ download_file(token)
         /\ token \in DOMAIN file_tokens
         /\ now > file_tokens[token].expire_time) =>
            response'.status = 404 /\ response'.body = <<>>
      ]_vars

\* C6: tokens issued for the same file are distinct keys with entries of their
\* own: an entry is never modified after it is issued, issuing adds exactly
\* one key that was not in the registry, a timer removes only its own token,
\* and no step but the passing of time changes what another token resolves to.
C6_IndependentTokens ==
    [][/\ \A k \in DOMAIN file_tokens \cap DOMAIN file_tokens' :
            /\ file_tokens'[k] = file_tokens[k]
            /\ now' = now => resolve(file_tokens', k, now') = resolve(file_tokens, k, now)
       /\ \A f \in IssuedPaths, n \in HostNames :
            generate_download_token(f, n) =>
                /\ uuid4(uuids) \notin DOMAIN file_tokens
                /\ DOMAIN file_tokens' = DOMAIN file_tokens \cup {uuid4(uuids)}
       /\ \A tm \in timers :
            timer_fires(tm) => DOMAIN file_tokens' = DOMAIN file_tokens \ {tm.token}
       /\ DOMAIN file_tokens' # DOMAIN file_tokens =>
            \/ \E f \in IssuedPaths, n \in HostNames : generate_download_token(f, n)
            \/ \E tm \in timers : timer_fires(tm)
      ]_vars

\* C6 witness: two tokens of the same file, the older one past its expiry and
\* refused, the newer one still resolved
C6_Witness ==
    \E a, b \in DOMAIN file_tokens :
        /\ a # b
        /\ file_tokens[a].file_path = file_tokens[b].file_path
        /\ file_tokens[a].file_path \in DOMAIN web_serve
        /\ file_tokens[a].expire_time < file_tokens[b].expire_time
        /\ resolve(file_tokens, a, now) = None
        /\ resolve(file_tokens, b, now) # None

----------------------------------------------------------------------------
(* Claims about distribution *)

\* the size of an output document of these pages
OutputSize(pages) == getsize(PdfFile(pages))

\* the public base URL is a loopback or placeholder address
LoopbackBase == PUBLIC_URL.host \in {"localhost", "127.0.0.1"}

\* C7: after a successful extraction, an output of size <= 50 MiB is sent
\* inline and neither a serve-directory copy nor a token is created; an output
\* of size > 50 MiB is not sent inline, it is copied to the serve directory,
\* exactly one token is registered for that copy and the URL is
\* PUBLIC_URL/download/token. Nothing else decides, and exactly one path is taken.
C7_DistributionBySize ==
    [][\A u \in Users :
        (RangeStep(u) /\ IsSome(last'.output)) =>
            LET out == Get(last'.output)
                copies == DOMAIN web_serve' \ DOMAIN web_serve
                issued == DOMAIN file_tokens' \ DOMAIN file_tokens
            IN  /\ \A p \in DOMAIN web_serve : p \in DOMAIN web_serve' /\ web_serve'[p] = web_serve[p]
                /\ \A t \in DOMAIN file_tokens :
                       t \in DOMAIN file_tokens' /\ file_tokens'[t] = file_tokens[t]
                /\ IF OutputSize(out) <= 50 * MiB
                   THEN /\ IsSome(last'.document)
                        /\ Get(last'.document).pages = out
                        /\ copies = {} /\ issued = {} /\ timers' = timers
                        /\ last'.url = None /\ last'.link = None /\ last'.token = None
                   ELSE /\ last'.document = None
                        /\ Cardinality(copies) = 1 /\ Cardinality(issued) = 1
                        /\ \A p \in copies, t \in issued :
                               /\ web_serve'[p].pages = out
                               /\ file_tokens'[t].file_path = p
                               /\ last'.token = Some(t)
                               /\ last'.url = Some(download_url(PUBLIC_URL, t))
                               /\ last'.link \in {None, last'.url}
      ]_vars

\* C7 witness: an oversized output was copied, a token registered for the
\* copy, and the link to it sent
C7_Witness ==
    /\ last.handler = "process_page_range"
    /\ IsSome(last.output) /\ OutputSize(Get(last.output)) > 50 * MiB
    /\ IsSome(last.link)
    /\ \E t \in DOMAIN file_tokens :
           /\ last.link = Some(download_url(PUBLIC_URL, t))
           /\ file_tokens[t].file_path \in DOMAIN web_serve

\* C8: with a loopback or placeholder public base URL no download link is
\* ever sent; an oversized extraction result ends with the configuration
\* error shown, the session in a conversation state and no exception raised.
C8_NoLoopbackLink ==
    [][\A u \in Users :
        (RangeStep(u) /\ LoopbackBase) =>
            /\ last'.link = None
            /\ (IsSome(last'.output) /\ OutputSize(Get(last'.output)) > 50 * MiB) =>
                   /\ last'.notice = "not_configured"
                   /\ conv'[u] \in ConvStates
                   /\ ~last'.raised
      ]_vars

\* C8 witness: an oversized output under the base URL http://127.0.0.1 was
\* answered with the configuration error
C8_Witness ==
    /\ PUBLIC_URL = Loopback
    /\ last.handler = "process_page_range"
    /\ IsSome(last.output) /\ OutputSize(Get(last.output)) > 50 * MiB
    /\ last.notice = "not_configured"
    /\ last.link = None
    /\ conv[last.user] = UPLOAD_PDF

----------------------------------------------------------------------------
(* Claims about cancelling and restarting *)

\* C9: from each of the five conversation states, a /cancel command moves the
\* session to the terminal state and sends the cancellation notice.
C9_CancelFromEveryState ==
    [][\A u \in Users :
        (conv[u] \in {UPLOAD_PDF, GET_URL, CONFIRM_DOWNLOAD, GET_PAGE_RANGE, SELECT_LOCAL_PDF}
         /\ CmdCancel(u)) =>
            /\ conv'[u] = END
            /\ last'.handler = "cancel" /\ last'.user = u
            /\ last'.notice = "cancelled"
      ]_vars

\* C9 witness: a conversation cancelled while it awaited the download confirmation
C9_Witness ==
    /\ last.handler = "cancel"
    /\ last.before = CONFIRM_DOWNLOAD
    /\ last.notice = "cancelled"
    /\ conv[last.user] = END

\* C10: after the user cancels, chooses Exit or restarts with /start, the
\* session data is blank: pdf_path, num_pages, pending_range, download_url and
\* file_name hold no value carried over from before the event.
C10_SessionDataReset ==
    (last.handler \in {"cancel", "cancel_download", "start"} /\ last.user \in Users) =>
        user_data[last.user] = BlankData

----------------------------------------------------------------------------
(* Claims about acquisition *)

\* the download arrives whole and its page count can be read
FetchSucceeds(fetch) == fetch.kind = "ok" /\ fetch.body.pdf

\* C11: in AwaitingDownloadConfirmation, a confirm event runs the URL fetch
\* and moves the session to AwaitingPageRange if the download and the
\* page-count read succeed and to the terminal state otherwise, also when no
\* download URL is recorded; a cancel-download event moves it to the terminal
\* state.
C11_ConfirmDownload ==
    [][\A u \in Users :
        conv[u] = CONFIRM_DOWNLOAD =>
            /\ \A fetch \in EngineFetches :
                   PressButton(u, Btn("confirm_download"), fetch) =>
                       /\ last'.handler = "confirm_download"
                       /\ conv'[u] = IF IsSome(user_data[u].download_url) /\ FetchSucceeds(fetch)
                                     THEN GET_PAGE_RANGE ELSE END
                       /\ conv'[u] = GET_PAGE_RANGE =>
                              /\ user_data'[u].pdf_path # None
                              /\ user_data'[u].num_pages = Some(Len(fetch.body.pages))
            /\ \A fetch \in EngineFetches :
                   PressButton(u, Btn("cancel_download"), fetch) =>
                       conv'[u] = END /\ last'.handler = "cancel_download"
      ]_vars

\* C11 witness: a confirmed download failed and the conversation ended
C11_Witness ==
    /\ last.handler = "confirm_download"
    /\ last.before = CONFIRM_DOWNLOAD
    /\ last.notice = "error_downloading"
    /\ conv[last.user] = END

\* the selected file is in the storage directory and its page count can be read
SelectionSucceeds(name) == name \in DOMAIN storage /\ storage[name].pdf

\* C12: in AwaitingLocalSelection, a selection moves the session to
\* AwaitingPageRange only if the selected file exists and its page count is
\* read; if the file no longer exists or the read fails, the session stays in
\* AwaitingLocalSelection.
C12_LocalSelection ==
    [][\A u \in Users : \A b \in buttons[u] :
        (/\ conv[u] = SELECT_LOCAL_PDF
         /\ b.data = "select_pdf"
         /\ PressButton(u, b, Fetch("error", Garbage))) =>
            conv'[u] = IF SelectionSucceeds(b.name) THEN GET_PAGE_RANGE ELSE SELECT_LOCAL_PDF
      ]_vars

\* C12 for the files that still exist: a selection whose page count cannot be
\* read shows the list again and stays in AwaitingLocalSelection
C12_ExistingFile ==
    [][\A u \in Users : \A b \in buttons[u] :
        (/\ conv[u] = SELECT_LOCAL_PDF
         /\ b.data = "select_pdf"
         /\ b.name \in DOMAIN storage
         /\ PressButton(u, b, Fetch("error", Garbage))) =>
            conv'[u] = IF SelectionSucceeds(b.name) THEN GET_PAGE_RANGE ELSE SELECT_LOCAL_PDF
      ]_vars

\* the checks of a URL and of the answer to its HEAD request: the scheme is
\* http or https, the status is 200, the content type contains "pdf" or the
\* path ends in ".pdf", and the advertised length, if any, is at most 2 GiB
UrlChecksPass(text, head) ==
    LET url == Strip(text)
    IN  /\ StartsWith(url, Http) \/ StartsWith(url, Https)
        /\ head # HeadError
        /\ head.status = 200
        /\ \/ head.content_type = "application/pdf"
           \/ EndsWith(Lower(url_path(url)), DotPdf)
        /\ IsSome(head.content_length) => Get(head.content_length) <= 2 * 1024 * MiB

\* C13: in AwaitingURL, a text URL moves the session to
\* AwaitingDownloadConfirmation only if every check passes; if any check fails
\* the session stays in AwaitingURL.
C13_UrlValidation ==
    [][\A u \in Users : \A text \in UrlTexts, head \in UrlHeads :
        (conv[u] = GET_URL /\ SendUrl(u, text, head)) =>
            /\ conv'[u] = CONFIRM_DOWNLOAD => UrlChecksPass(text, head)
            /\ ~UrlChecksPass(text, head) => conv'[u] = GET_URL
      ]_vars

\* C13 for answers that carry a Content-Type header: then the session moves
\* on exactly when every check passes
C13_WithContentType ==
    [][\A u \in Users : \A text \in UrlTexts, head \in UrlHeads :
        (conv[u] = GET_URL /\ SendUrl(u, text, head) /\ head.content_type # "") =>
            conv'[u] = IF UrlChecksPass(text, head) THEN CONFIRM_DOWNLOAD ELSE GET_URL
      ]_vars

\* the filename= value of a Content-Disposition header, if it carries one
DispositionName(head) ==
    IF IsSome(head.content_disposition) THEN Get(head.content_disposition).filename ELSE None

\* the last component of the path of the URL
PathBasename(text) == basename(url_path(Strip(text)))

\* C17: the filename derived for an accepted URL is the filename= value of
\* the Content-Disposition header if there is one, else the basename of the
\* URL path, else "document.pdf"; and in every case it ends with ".pdf",
\* compared case-insensitively, a name that already does being kept unchanged.
C17_FilenameDerivation ==
    [][\A u \in Users : \A text \in UrlTexts, head \in UrlHeads :
        (conv[u] = GET_URL /\ SendUrl(u, text, head) /\ conv'[u] = CONFIRM_DOWNLOAD) =>
            LET name == Get(user_data'[u].file_name)
                given == DispositionName(head)
                base == PathBasename(text)
            IN  /\ user_data'[u].file_name # None
                /\ EndsWith(Lower(name), DotPdf)
                /\ IsSome(given) =>
                       \/ name = Get(given)
                       \/ ~EndsWith(Lower(Get(given)), DotPdf) /\ name = Get(given) \o DotPdf
                /\ (~IsSome(given) /\ base # <<>>) =>
                       name = IF EndsWith(Lower(base), DotPdf) THEN base ELSE base \o DotPdf
                /\ (~IsSome(given) /\ base = <<>>) => name = NameDocument
      ]_vars

\* C17 for answers without a filename= value: the name comes from the URL
\* path, defaults to "document.pdf" and ends with ".pdf"
C17_FromUrlPath ==
    [][\A u \in Users : \A text \in UrlTexts, head \in UrlHeads :
        (/\ conv[u] = GET_URL /\ SendUrl(u, text, head) /\ conv'[u] = CONFIRM_DOWNLOAD
         /\ ~IsSome(DispositionName(head))) =>
            LET name == Get(user_data'[u].file_name)
                base == PathBasename(text)
            IN  /\ EndsWith(Lower(name), DotPdf)
                /\ name = IF base = <<>> THEN NameDocument
                          ELSE IF EndsWith(Lower(base), DotPdf) THEN base ELSE base \o DotPdf
      ]_vars

\* the name handle_pdf stores an uploaded document under
UploadPath(u, d) ==
    basename(IF IsSome(d.file_name) /\ Get(d.file_name) # <<>>
             THEN Get(d.file_name) ELSE NameTelegram(u))

\* the upload fails: the transfer fails or the page count cannot be read
UploadFails(d) == d.transfer # "ok" \/ ~d.file.pdf

\* C14: an uploaded document of more than 50 MiB is rejected before any file
\* is written; if the transfer or the page-count read fails, the file written
\* for the upload is not in the storage directory afterwards and no other
\* file is added or changed; in both cases the session stays in AwaitingSource.
C14_FailedUpload ==
    [][\A u \in Users : \A d \in EngineUploads :
        (conv[u] = UPLOAD_PDF /\ SendDocument(u, d, TRUE)) =>
            /\ getsize(d.file) > 50 * MiB =>
                   storage' = storage /\ conv'[u] = UPLOAD_PDF
            /\ (getsize(d.file) <= 50 * MiB /\ UploadFails(d)) =>
                   /\ conv'[u] = UPLOAD_PDF
                   /\ \A n \in DOMAIN storage' : n \in DOMAIN storage /\ storage'[n] = storage[n]
                   /\ d.transfer # "get_file_fails" => UploadPath(u, d) \notin DOMAIN storage'
                   /\ d.transfer = "get_file_fails" => storage' = storage
      ]_vars

\* C14 witness: the page count of an uploaded file could not be read, and no
\* file is left in the storage directory
C14_Witness ==
    /\ last.handler = "handle_pdf"
    /\ last.notice = "error_processing_pdf"
    /\ conv[last.user] = UPLOAD_PDF
    /\ user_data[last.user].pdf_path # None
    /\ Get(user_data[last.user].pdf_path) \notin DOMAIN storage

\* C15: if the URL fetch fails (the request, the stream, or the page-count
\* read after the download), the flow ends in the terminal state and the
\* session has no pdf_path and no num_pages recorded after the failure.
C15_FailedFetch ==
    [][\A u \in Users : \A fetch \in EngineFetches :
        (/\ conv[u] = CONFIRM_DOWNLOAD
         /\ ~FetchSucceeds(fetch)
         /\ PressButton(u, Btn("confirm_download"), fetch)) =>
            /\ conv'[u] = END
            /\ user_data'[u].pdf_path = None
            /\ user_data'[u].num_pages = None
      ]_vars

\* C15 as far as the fetch itself goes: a failed fetch ends the flow and
\* records nothing on the session
C15_NothingRecorded ==
    [][\A u \in Users : \A fetch \in EngineFetches :
        (/\ conv[u] = CONFIRM_DOWNLOAD
         /\ ~FetchSucceeds(fetch)
         /\ PressButton(u, Btn("confirm_download"), fetch)) =>
            /\ conv'[u] = END
            /\ user_data' = user_data
      ]_vars

----------------------------------------------------------------------------
(* Claims about inputs a state does not expect *)

\* the update was dropped: no handler ran, the conversation state and the
\* session data are as before
Dropped(u) ==
    /\ last'.handler = "ignored" /\ last'.user = u /\ ~last'.raised
    /\ conv' = conv
    /\ user_data' = user_data
    /\ storage' = storage

\* C16: free text in AwaitingSource, AwaitingDownloadConfirmation or
\* AwaitingLocalSelection, a document in a state other than AwaitingSource, a
\* non-PDF document in any state, and a button press in AwaitingURL or
\* AwaitingPageRange are ignored: the conversation state and the session data
\* are unchanged and no handler fails.
C16_UnexpectedInputIgnored ==
    [][\A u \in Users :
        /\ (conv[u] \in {UPLOAD_PDF, CONFIRM_DOWNLOAD, SELECT_LOCAL_PDF}
            /\ SendText(u, <<"1">>)) => Dropped(u)
        /\ \A d \in EngineUploads :
               /\ (conv[u] \in ConvStates \ {UPLOAD_PDF} /\ SendDocument(u, d, TRUE))
                      => Dropped(u)
               /\ (conv[u] \in ConvStates /\ SendDocument(u, d, FALSE)) => Dropped(u)
        /\ \A b \in buttons[u], fetch \in EngineFetches :
               (conv[u] \in {GET_URL, GET_PAGE_RANGE} /\ PressButton(u, b, fetch))
                   => Dropped(u)
      ]_vars

\* C16 witness: an input was ignored in AwaitingPageRange, where a document
\* is recorded on the session
C16_Witness ==
    /\ last.handler = "ignored"
    /\ last.before = GET_PAGE_RANGE
    /\ conv[last.user] = GET_PAGE_RANGE
    /\ user_data[last.user].pdf_path # None
    /\ user_data[last.user].num_pages # None

----------------------------------------------------------------------------
(* Claims about the page-copy loop *)

\* the pages of first..final that the loop cannot copy from source: the page
\* is not in the document, or it is damaged
Uncopyable(source, first, final) ==
    {p \in first..final : p > Len(source) \/ source[p] = DamagedPage}

\* C19: when copying a page of a valid range fails, the extraction is aborted:
\* no output is delivered inline, no copy is put in the serve directory and no
\* token is issued, the user is told which page failed (the first one that
\* could not be copied), and the session stays in AwaitingPageRange.
C19_FailedPageAborts ==
    [][\A u \in Users :
        (/\ RangeStep(u)
         /\ ~InvalidRange(last'.text, PageCount(u))
         /\ IsSome(user_data[u].pdf_path)
         /\ Get(user_data[u].pdf_path) \in DOMAIN storage
         /\ storage[Get(user_data[u].pdf_path)].pdf
         /\ Uncopyable(storage[Get(user_data[u].pdf_path)].pages,
                       StartOf(last'.text), EndOf(last'.text)) # {}) =>
            LET bad == Uncopyable(storage[Get(user_data[u].pdf_path)].pages,
                                  StartOf(last'.text), EndOf(last'.text))
            IN  /\ conv'[u] = GET_PAGE_RANGE
                /\ last'.notice = "error_processing_page"
                /\ last'.failed_page = CHOOSE p \in bad : \A q \in bad : p <= q
                /\ last'.output = None
                /\ last'.document = None
                /\ last'.link = None
                /\ last'.token = None
                /\ web_serve' = web_serve
                /\ file_tokens' = file_tokens
      ]_vars

\* C19 witness: a range whose second page could not be copied, after the first was
C19_Witness ==
    /\ last.handler = "process_page_range"
    /\ last.notice = "error_processing_page"
    /\ last.failed_page = 2
    /\ StartOf(last.text) = 1
    /\ conv[last.user] = GET_PAGE_RANGE

\* C18: an extraction of total_pages = end - start + 1 pages emits at most 10
\* progress reports during the page-copy loop.
C18_AtMostTenReports ==
    (last.handler = "process_page_range" /\ IsSome(last.output)) =>
        Len(last.reports) <= 10

\* the reports of a complete extraction are those of the iterations i > 0
\* that are multiples of max(1, total_pages // 10); up to 11 pages they are
\* no more than 10
C18_ReportsAtInterval ==
    (last.handler = "process_page_range" /\ IsSome(last.output)) =>
        LET total_pages == Len(Get(last.output))
            tenth == total_pages \div 10
            interval == IF tenth > 1 THEN tenth ELSE 1
        IN  /\ {last.reports[k].i : k \in 1..Len(last.reports)} =
                   {i \in 1..(total_pages - 1) : i % interval = 0}
            /\ total_pages <= 11 => Len(last.reports) <= 10

----------------------------------------------------------------------------
(* Claims about progress reports that fail *)

\* the reports of the last handler that were due and could not be sent
LostReports == {k \in 1..Len(last.reports) : ~last.reports[k].sent}

\* C20: a progress report that fails, during the download of a URL or during
\* the page copy, never changes the outcome: whichever reports fail, the
\* download leaves the same file, session data and state, and the extraction
\* the same pages, delivery and state, as when every report succeeds; the
\* same reports are due.
C20_ReportFailuresHarmless ==
    [][\A u \in Users :
        /\ RangeStep(u) =>
              LET all_sent == range_result(u, last'.text, {})
              IN  /\ conv'[u] = all_sent.state
                  /\ user_data'[u] = all_sent.data
                  /\ web_serve' = all_sent.served
                  /\ file_tokens' = all_sent.tokens
                  /\ storage' = storage
                  /\ last'.output = all_sent.sent.output
                  /\ last'.document = all_sent.sent.document
                  /\ last'.notice = all_sent.sent.notice
                  /\ last'.failed_page = all_sent.sent.failed_page
                  /\ Len(last'.reports) = Len(all_sent.sent.reports)
        /\ (conv[u] = CONFIRM_DOWNLOAD /\ last'.user = u
                /\ last'.handler = "confirm_download") =>
              \A fetch \in ProgressFetches :
                  PressButton(u, Btn("confirm_download"), fetch) =>
                      LET all_sent == download_result(u, [fetch EXCEPT !.failing = {}])
                      IN  /\ conv'[u] = all_sent.state
                          /\ user_data'[u] = all_sent.data
                          /\ storage' = all_sent.files
                          /\ last'.notice = all_sent.sent.notice
                          /\ Len(last'.reports) = Len(all_sent.sent.reports)
      ]_vars

\* C20 witness: pages extracted from a document that was downloaded, in a
\* copy loop two of whose reports failed
C20_Witness ==
    /\ last.handler = "process_page_range"
    /\ IsSome(last.output)
    /\ Cardinality(LostReports) >= 2
    /\ Len(last.reports) > Cardinality(LostReports)
    /\ IsSome(user_data[last.user].download_url)
    /\ IsSome(user_data[last.user].pdf_path)
    /\ storage[Get(user_data[last.user].pdf_path)] = LongDoc(MaxLongPages - 1)

\* a download that completed although reports of its progress failed
C20_DownloadCompleted ==
    /\ last.handler = "confirm_download"
    /\ last.notice = "pdf_downloaded"
    /\ LostReports # {}
    /\ conv[last.user] = GET_PAGE_RANGE

----------------------------------------------------------------------------
(* Claims about the sweep and the life of a token *)

\* the files of the serve directory older than the expiration window
OlderThanWindow == {p \in DOMAIN web_serve : web_serve[p].mtime + FILE_EXPIRATION_TIME < now}

\* C21: a sweep run deletes every file of the serve directory with
\* mtime + 24 h < now, referenced by a token or not, and no other file; a
\* second run at the same time deletes nothing more.
C21_SweepDeletesOldFiles ==
    [][cleanup_expired_files =>
          /\ DOMAIN web_serve' = DOMAIN web_serve \ OlderThanWindow
          /\ \A p \in DOMAIN web_serve' : web_serve'[p] = web_serve[p]
          /\ file_tokens' = file_tokens
          /\ \A p \in DOMAIN web_serve' : ~sweep_deletes(web_serve'[p], now')
      ]_vars

\* C21 witness: the sweep has deleted a file that a token of the registry
\* still references, and has kept a younger one
C21_Witness ==
    /\ \E token \in DOMAIN file_tokens :
           /\ file_tokens[token].file_path # MissingPath
           /\ file_tokens[token].file_path \notin DOMAIN web_serve
    /\ DOMAIN web_serve # {}

\* C24: after a lookup that finds the token present but expired, the token is
\* no longer in the registry.
C24_ExpiredTokenDestroyed ==
    [][\A token \in AskedTokens :
          (/\ download_file(token)
           /\ token \in DOMAIN file_tokens
           /\ file_tokens[token].expire_time < now) =>
              token \notin DOMAIN file_tokens'
      ]_vars

\* what the lookup of an expired token does: it answers 404 and leaves the
\* registry as it is
C24_ExpiredTokenRefused ==
    [][\A token \in AskedTokens :
          (/\ download_file(token)
           /\ token \in DOMAIN file_tokens
           /\ file_tokens[token].expire_time < now) =>
              /\ response'.status = 404
              /\ file_tokens' = file_tokens
      ]_vars

----------------------------------------------------------------------------
(* Claims about the stored document and the temporary output *)

\* C28: whenever a session is in AwaitingPageRange, the file at its pdf_path
\* exists and the recorded num_pages is that file's page count.
C28_DocumentAsRecorded ==
    \A u \in Users :
        conv[u] = GET_PAGE_RANGE =>
            /\ IsSome(user_data[u].pdf_path)
            /\ Get(user_data[u].pdf_path) \in DOMAIN storage
            /\ storage[Get(user_data[u].pdf_path)].pdf
            /\ user_data[u].num_pages =
                   Some(Len(storage[Get(user_data[u].pdf_path)].pages))

\* the handlers that lead into AwaitingPageRange leave the session with a
\* stored file and its page count
C28_AsRecordedOnEntry ==
    [][\A u \in Users :
          (conv[u] # GET_PAGE_RANGE /\ conv'[u] = GET_PAGE_RANGE) =>
              /\ IsSome(user_data'[u].pdf_path)
              /\ Get(user_data'[u].pdf_path) \in DOMAIN storage'
              /\ user_data'[u].num_pages =
                     Some(Len(storage'[Get(user_data'[u].pdf_path)].pages))
      ]_vars

\* C29: after process_page_range returns from an extraction, on whichever
\* path, the temporary output file no longer exists.
C29_TemporaryFileRemoved ==
    last.handler = "process_page_range" => ~last.temp_left

\* the temporary file is removed when the output was delivered, inline or by link
C29_RemovedAfterDelivery ==
    (last.handler = "process_page_range" /\ (IsSome(last.document) \/ IsSome(last.link))) =>
        ~last.temp_left

----------------------------------------------------------------------------
(* Claims about what a confirmation downloads *)

\* a step in which the "confirm_download" button of user u starts a GET request
FetchStep(u) ==
    /\ last'.handler = "confirm_download"
    /\ last'.user = u
    /\ IsSome(last'.url)

\* C26: the URL fetched on a confirm event is one that passed validation and
\* was offered for confirmation, and the file is stored under the name derived
\* for that URL.
C26_FetchOnlyOffered ==
    [][\A u \in Users :
          FetchStep(u) =>
              \E offer \in offered[u] :
                  /\ offer.url = Get(last'.url)
                  /\ IsSome(last'.stored) => Get(last'.stored) = basename(offer.file_name)
      ]_vars

\* a confirmation pressed while the session awaits it fetches the URL offered
\* last, under its name
C26_FetchInConfirmation ==
    [][\A u \in Users :
          (FetchStep(u) /\ conv[u] = CONFIRM_DOWNLOAD) =>
              \E offer \in offered[u] :
                  /\ offer.url = Get(last'.url)
                  /\ offer.url = Get(user_data[u].download_url)
                  /\ IsSome(last'.stored) => Get(last'.stored) = basename(offer.file_name)
      ]_vars

----------------------------------------------------------------------------
(* Claims about the removal of tokens *)

----------------------------------------------------------------------------
(* Claims about the threads of the host *)

\* C22: whatever file disappears from the serve directory, or appears in it,
\* while the sweep runs, the run does not fail: it goes on to schedule the
\* next run.
C22_SweepKeepsRunning == sweeper.pc # "failed"

\* a file that is gone when the loop asks os.path.isfile, or when os.remove
\* runs, does not stop the sweep: a run fails only in os.path.getmtime
C22_FailsOnlyInGetmtime ==
    [][(sweeper.pc # "failed" /\ sweeper'.pc = "failed") =>
          /\ sweeper.pc = "isfile"
          /\ Get(sweeper.file_path) \notin DOMAIN web_serve
      ]_vars

\* C23: a request GET /download/<token>, however it interleaves with the
\* token's timer and with the sweep, ends with the file (200) or with 404.
C23_ServedOrNotFound == response.status \in {0, 200, 404}

\* a request that the timers and the sweep do not interleave with ends with
\* 200 or 404
C23_UndisturbedRequest ==
    [][(request.pc # "none" /\ request'.pc = "none" /\ response'.status = 500) =>
          \/ request.token \notin DOMAIN file_tokens
          \/ /\ IsSome(request.file_path)
             /\ Get(request.file_path) \notin DOMAIN web_serve
      ]_vars

----------------------------------------------------------------------------
(* Claims about a link and the sweep *)

\* C27: while a token is in the registry and unexpired (now < expire_time),
\* the served file it references has not been deleted by the sweep.
C27_FileOutlivesToken ==
    \A token \in DOMAIN file_tokens :
        now < file_tokens[token].expire_time =>
            file_tokens[token].file_path \in DOMAIN web_serve

\* a token issued at the very instant of its file's mtime keeps its file
\* until it expires: the sweep deletes the file of an unexpired token only
\* when the token was issued later than the file was written
C27_IssuedAtTheCopy ==
    [][\A token \in DOMAIN file_tokens :
          LET path == file_tokens[token].file_path
          IN  (/\ path \in DOMAIN web_serve
               /\ path \notin DOMAIN web_serve'
               /\ now < file_tokens[token].expire_time) =>
                  web_serve[path].mtime + FILE_EXPIRATION_TIME < file_tokens[token].expire_time
      ]_vars

====
